---- MODULE Spec2Model ----
(***************************************************************************)
(* Revenue-flow Sankey scripts of market-intelligence-skills:              *)
(*   skills/sankey-revenue-flow-skill/scripts/sankey_generator.py   (sg_)  *)
(*   skills/sankey-revenue-flow-skill/scripts/compare_companies.py  (cc_)  *)
(*   skills/sankey-revenue-flow-skill/scripts/extract_revenue_data.py (ex_) *)
(*   skills/earnings-analysis-skill/scripts/sankey_revenue.py       (sr_)  *)
(* and the news categorization of                                          *)
(*   skills/competitor-battle-card-skill/scripts/track_news.py      (tn_)  *)
(*                                                                         *)
(* A CSV file is a sequence of rows of text cells.  Numbers are rationals  *)
(* [n, d] (d > 0, lowest terms).  A run computes in "exact" arithmetic,    *)
(* or in "float" arithmetic, which rounds the result of every operation as *)
(* binary floating point does.  A cell of the value column is              *)
(*   [t |-> "nan"]  an empty field,                                        *)
(*   [t |-> "str"]  text that is no number,                                *)
(*   [t |-> "num"]  the decimal n/d, d a power of ten.                     *)
(*                                                                         *)
(* Specifications:                                                         *)
(*   Spec          load_data then prepare_sankey_data, of both scripts     *)
(*   SpecNorm      compare_companies.py normalization, run and run again   *)
(*   SpecSummary   create_summary_table over two files                     *)
(*   SpecOrder     create_summary_table, the order of its rows             *)
(*   SpecQuarters  compare_quarters                                        *)
(*   SpecLoad      load_data on comment lines, partial rows, missing cols  *)
(*   SpecColor     get_node_color                                          *)
(*   SpecPrepare   prepare_sankey_data of the three scripts on one table   *)
(*   SpecTwice     prepare_sankey_data called twice on one loaded table    *)
(*   SpecFloat     normalization and percentages, exact and in floats      *)
(*   SpecMain      main of the four scripts, arguments to exit status      *)
(*   SpecRoundTrip a table written to CSV and read by load_data            *)
(*   SpecNews      categorize_news over lists of articles                  *)
(***************************************************************************)
EXTENDS Integers, Sequences, FiniteSets, TLC

VARIABLES
    script,     \* the entry point that runs
    args,       \* the command line arguments of a run of main
    file,       \* the input file (the first one of a comparison)
    file2,      \* the second input file of a comparison
    normalize,  \* the normalize argument
    quarters,   \* the two quarters requested of compare_quarters
    companies,  \* the display names company1, company2 of a comparison
    articles,   \* the news articles handed to categorize_news
    arith,      \* the arithmetic of the run: "exact", or "float" (every result
                \* rounded as a binary floating-point operation rounds it)
    pc,         \* where the run stands
    df,         \* the table load_data returned for file (None on a load error)
    df2,        \* the same for file2
    input,      \* the table handed to the latest call of prepare_sankey_data
    first,      \* the graph returned by the first call of prepare_sankey_data
    data,       \* the graph returned by the latest call
    data2,      \* the graph of the second table of a comparison
    runs,       \* calls of prepare_sankey_data made on the table
    summary,    \* the rows of the table create_summary_table returned
    out,        \* what the run returned or reported
    written,    \* the CSV file the run wrote (NoFile when none)
    categorized \* the dict categorize_news returned (NoCategories before)

inputs == <<script, args, file, file2, normalize, quarters, companies, articles, arith>>

vars == <<script, args, file, file2, normalize, quarters, companies, articles, arith, pc,
          df, df2, input, first, data, data2, runs, summary, out, written, categorized>>

(***************************************************************************)
(* Bounds of the model                                                     *)
(***************************************************************************)
\* rows of an input file of the single-table pipelines
MaxRows == 2
\* bits of the significand of a float in "float" arithmetic
FloatBits == 11
\* calls of prepare_sankey_data on its own normalized output
MaxRuns == 2
\* rows of an input file of the normalization runs
MaxNormRows == 2
\* rows of the first and of the second file handed to create_summary_table
MaxSumRows == 2
MaxSum2Rows == 1
\* rows of the file handed to compare_quarters
MaxQRows == 2
\* rows of a file with comment lines, partial rows or missing columns
MaxLoadRows == 2
\* rows of the table handed to the three copies of prepare_sankey_data
MaxPrepRows == 2
\* rows of a table that is prepared twice
MaxTwiceRows == 2
\* rows of an input file of a run of main
MaxMainRows == 2
\* market prompts of a segment that are answered in interactive entry
MaxAnswers == 2

(***************************************************************************)
(* Exact rational arithmetic                                               *)
(***************************************************************************)
RECURSIVE GCD(_, _)
GCD(a, b) == IF b = 0 THEN a ELSE GCD(b, a % b)

Abs(x) == IF x < 0 THEN -x ELSE x

\* n/d, d > 0, divided through by g
Reduced(n, d, g) == [n |-> n \div g, d |-> d \div g]

\* the rational n/d (d # 0) in lowest terms with a positive denominator
Rat(n, d) == Reduced(IF d < 0 THEN -n ELSE n, Abs(d), GCD(Abs(n), Abs(d)))

RInt(k) == [n |-> k, d |-> 1]
RZero == RInt(0)
RAdd(a, b) == Rat(a.n * b.d + b.n * a.d, a.d * b.d)
RSub(a, b) == Rat(a.n * b.d - b.n * a.d, a.d * b.d)
RMul(a, b) == Rat(a.n * b.n, a.d * b.d)
RDiv(a, b) == Rat(a.n * b.d, a.d * b.n)
RLess(a, b) == a.n * b.d < b.n * a.d
RPos(a) == a.n > 0
\* Python's max(a, b): b only when b > a
RMax(a, b) == IF RLess(a, b) THEN b ELSE a

RECURSIVE RSum(_)
RSum(s) == IF s = <<>> THEN RZero ELSE RAdd(Head(s), RSum(Tail(s)))

(***************************************************************************)
(* Floating point.  The scripts compute in float64: every operation        *)
(* returns the exact result rounded to the nearest number with a           *)
(* significand of 53 bits, ties to the even significand.  A run in "float" *)
(* arithmetic rounds the same way to FloatBits bits (exponents are not     *)
(* limited: the values of the model neither overflow nor underflow); a run *)
(* in "exact" arithmetic does not round.                                   *)
(***************************************************************************)
RECURSIVE Pow2(_)
Pow2(k) == IF k = 0 THEN 1 ELSE 2 * Pow2(k - 1)

\* x * 2^e
Scaled(x, e) == IF e >= 0 THEN Rat(x.n * Pow2(e), x.d) ELSE Rat(x.n, x.d * Pow2(-e))

\* the numbers of a run in "float" arithmetic lie between 2^-MinFloatExp and
\* 2^FloatBits
MinFloatExp == 4

\* the exponent e that brings x > 0 to 2^(FloatBits-1) <= x * 2^e < 2^FloatBits
FloatExp(x) ==
    CHOOSE e \in 0..(FloatBits + MinFloatExp) :
        /\ x.n * Pow2(e) >= Pow2(FloatBits - 1) * x.d
        /\ x.n * Pow2(e) < Pow2(FloatBits) * x.d

\* q + rest / d, 0 <= rest < d, rounded to the nearest integer, ties to even
NearestTo(q, rest, d) ==
    IF 2 * rest > d \/ (2 * rest = d /\ q % 2 = 1) THEN q + 1 ELSE q

\* the integer nearest to s > 0, ties to even
NearestEven(s) == NearestTo(s.n \div s.d, s.n % s.d, s.d)

\* sign * a, a > 0, rounded to a significand of FloatBits bits, e the exponent
\* of a
fl_scaled(sign, a, e) == Scaled(RInt(sign * NearestEven(Scaled(a, e))), -e)

\* sign * a, a > 0, rounded
fl_signed(sign, a) == fl_scaled(sign, a, FloatExp(a))

\* x rounded to a significand of FloatBits bits
fl(x) ==
    IF x.n = 0 THEN x
    ELSE fl_signed(IF x.n < 0 THEN -1 ELSE 1, [n |-> Abs(x.n), d |-> x.d])

\* the result of one operation in the arithmetic of the run
Round(x) == IF arith = "float" THEN fl(x) ELSE x

\* a + b, a - b, a * b, a / b
FAdd(a, b) == Round(RAdd(a, b))
FSub(a, b) == Round(RSub(a, b))
FMul(a, b) == Round(RMul(a, b))
FDiv(a, b) == Round(RDiv(a, b))

\* Series.sum(): the elements added one after the other
RECURSIVE FSumFrom(_, _)
FSumFrom(acc, s) == IF s = <<>> THEN acc ELSE FSumFrom(FAdd(acc, Head(s)), Tail(s))

FSum(s) == FSumFrom(RZero, s)

(***************************************************************************)
(* Sequences                                                               *)
(***************************************************************************)
Range(s) == {s[i] : i \in DOMAIN s}

\* pandas Series.unique(): the distinct elements in order of first appearance
RECURSIVE Unique(_)
Unique(s) ==
    IF s = <<>> THEN <<>>
    ELSE LET u == Unique(SubSeq(s, 1, Len(s) - 1))
             x == s[Len(s)]
         IN  IF x \in Range(u) THEN u ELSE Append(u, x)

Column(rows, c) == [i \in DOMAIN rows |-> rows[i][c]]

SeqsUpTo(S, n) == UNION {[1..k -> S] : k \in 0..n}

(***************************************************************************)
(* Input files                                                             *)
(***************************************************************************)
NaN == ""
AllCols == {"source", "target", "value", "quarter"}
ReqCols == {"source", "target", "value"}

NanCell == [t |-> "nan", n |-> 0, d |-> 1]
StrCell == [t |-> "str", n |-> 0, d |-> 1]
NumCell(k) == [t |-> "num", n |-> k, d |-> 1]
\* the text of the decimal n/d, as 3.5 = DecCell(35, 10)
DecCell(n, d) == [t |-> "num", n |-> n, d |-> d]

\* a frame, or None
None == [isNone |-> TRUE, columns |-> {}, rows |-> <<>>]
Frame(cols, rows) == [isNone |-> FALSE, columns |-> cols, rows |-> rows]

\* the texts of the model that begin with '#'
Comments == {"#", "# Layer 1: Total Revenue to Segments"}
StartsComment(x) == x \in Comments

\* the texts pd.read_csv reads as a missing value (its default na_values)
na_values ==
    {"", "#N/A", "#N/A N/A", "#NA", "-1.#IND", "-1.#QNAN", "-NaN", "-nan", "1.#IND",
     "1.#QNAN", "<NA>", "N/A", "NA", "NULL", "NaN", "None", "n/a", "nan", "null"}

read_cell(x) == IF x \in na_values THEN NaN ELSE x

\* one line read with comment='#': the rest of a line is dropped from the '#'
\* on (the fields stand in the order source, target, value, quarter), and the
\* fields left are read
read_csv_line(r) ==
    IF StartsComment(r.target)
    THEN [source |-> read_cell(r.source), target |-> NaN, value |-> NanCell,
          quarter |-> NaN]
    ELSE [source |-> read_cell(r.source), target |-> read_cell(r.target),
          value |-> r.value, quarter |-> read_cell(r.quarter)]

\* pd.read_csv(file_path, comment='#'): a line that begins with '#' is empty
\* once the comment is dropped, and empty lines are skipped
read_csv(rows) ==
    LET lines == SelectSeq(rows, LAMBDA r : ~StartsComment(r.source))
    IN  [i \in DOMAIN lines |-> read_csv_line(lines[i])]

\* a row has a NaN in one of the frame's columns
HasNaN(cols, r) ==
    \/ "source" \in cols /\ r.source = NaN
    \/ "target" \in cols /\ r.target = NaN
    \/ "quarter" \in cols /\ r.quarter = NaN
    \/ "value" \in cols /\ r.value.t = "nan"

\* DataFrame.dropna(): rows holding a NaN in any column are removed
dropna(cols, rows) == SelectSeq(rows, LAMBDA r : ~HasNaN(cols, r))

\* pd.read_csv infers a numeric dtype for a column all of whose non-empty
\* fields are numbers, and keeps the fields as strings (dtype object) otherwise
ValueIsNumeric(rows) == \A i \in DOMAIN rows : rows[i].value.t # "str"

\* pd.to_numeric(errors='coerce'): text that is no number becomes NaN
to_numeric(rows) ==
    [i \in DOMAIN rows |->
        IF rows[i].value.t = "str" THEN [rows[i] EXCEPT !.value = NanCell]
        ELSE rows[i]]

\* the value column as numbers, once every cell is a number: the float nearest
\* to the decimal of the field
Typed(rows) ==
    [i \in DOMAIN rows |->
        [rows[i] EXCEPT !.value = Round(Rat(rows[i].value.n, rows[i].value.d))]]

(***************************************************************************)
(* sankey_generator.py: load_data                                          *)
(***************************************************************************)
sg_load_data(f) ==
    IF ~f.exists \/ "value" \notin f.columns THEN None
    ELSE LET rows == read_csv(f.rows)
             r0 == dropna(f.columns, rows)
             \* df[df['value'] != 0]: a string never equals 0
             r1 == IF ValueIsNumeric(rows)
                   THEN SelectSeq(r0, LAMBDA r : r.value.n # 0)
                   ELSE r0
             r2 == dropna(f.columns, to_numeric(r1))
         IN  Frame(f.columns, Typed(r2))

(***************************************************************************)
(* compare_companies.py: load_data                                         *)
(***************************************************************************)
cc_load_data(f) ==
    IF ~f.exists \/ "value" \notin f.columns THEN None
    ELSE LET r0 == dropna(f.columns, read_csv(f.rows))
             r1 == dropna(f.columns, to_numeric(r0))
             r2 == SelectSeq(r1, LAMBDA r : r.value.n > 0)
         IN  Frame(f.columns, Typed(r2))

(***************************************************************************)
(* Number formatting                                                       *)
(***************************************************************************)
\* f"{x:.1f}": x rounded to one decimal (ties to even), as a count of tenths;
\* the sign Python prints before a negative value that rounds to 0.0 is not kept
format_1f(x) ==
    LET m == 2 * x.d
        q == (20 * x.n + x.d) \div m
        tie == (20 * x.n + x.d) % m = 0
    IN  IF tie /\ q % 2 # 0 THEN q - 1 ELSE q

(***************************************************************************)
(* Text whose letters are looked at (a company label, a palette key, the   *)
(* stem of a file name) is a sequence of characters.  The empty sequence   *)
(* stands for an argument that is None or ''.                              *)
(***************************************************************************)
ascii_uppercase ==
    <<"A", "B", "C", "D", "E", "F", "G", "H", "I", "J", "K", "L", "M",
      "N", "O", "P", "Q", "R", "S", "T", "U", "V", "W", "X", "Y", "Z">>
ascii_lowercase ==
    <<"a", "b", "c", "d", "e", "f", "g", "h", "i", "j", "k", "l", "m",
      "n", "o", "p", "q", "r", "s", "t", "u", "v", "w", "x", "y", "z">>

\* the place of a character in an alphabet, 0 when it is not there
LetterOf(alphabet, c) ==
    IF \E k \in DOMAIN alphabet : alphabet[k] = c
    THEN CHOOSE k \in DOMAIN alphabet : alphabet[k] = c
    ELSE 0

\* str.lower()
str_lower(t) ==
    [i \in DOMAIN t |->
        IF LetterOf(ascii_uppercase, t[i]) > 0
        THEN ascii_lowercase[LetterOf(ascii_uppercase, t[i])]
        ELSE t[i]]

\* `key in t`: key is a substring of t
str_in(key, t) ==
    \E i \in 0..(Len(t) - Len(key)) : SubSeq(t, i + 1, i + Len(key)) = key

(***************************************************************************)
(* sankey_generator.py: color tables and get_node_color.  A dict is        *)
(* scanned in the order its entries are written.                           *)
(***************************************************************************)
COMPANY_COLORS ==
    <<[key |-> <<"m", "i", "c", "r", "o", "n">>,
       colors |-> [primary |-> "#0066B3", DRAM |-> "#A23B72", NAND |-> "#F18F01", Emerging |-> "#C2C5BB", Other |-> "#C2C5BB"]],
      [key |-> <<"s", "k", " ", "h", "y", "n", "i", "x">>,
       colors |-> [primary |-> "#ED1C24", DRAM |-> "#E74C3C", NAND |-> "#F39C12", Emerging |-> "#95A5A6", Other |-> "#95A5A6"]],
      [key |-> <<"s", "a", "m", "s", "u", "n", "g">>,
       colors |-> [primary |-> "#1428A0", DRAM |-> "#3498DB", NAND |-> "#9B59B6", Emerging |-> "#BDC3C7", Other |-> "#BDC3C7"]],
      [key |-> <<"w", "e", "s", "t", "e", "r", "n", " ", "d", "i", "g", "i", "t", "a", "l">>,
       colors |-> [primary |-> "#005EB8", DRAM |-> "#3498DB", NAND |-> "#E67E22", Emerging |-> "#95A5A6", Other |-> "#95A5A6"]],
      [key |-> <<"k", "i", "o", "x", "i", "a">>,
       colors |-> [primary |-> "#E60012", DRAM |-> "#E74C3C", NAND |-> "#C0392B", Emerging |-> "#7F8C8D", Other |-> "#7F8C8D"]]>>

END_MARKET_COLORS ==
    ("AI/Datacenter" :> "#2E86AB")
    @@ ("Datacenter" :> "#2E86AB")
    @@ ("AI" :> "#2E86AB")
    @@ ("Mobile" :> "#06A77D")
    @@ ("Enterprise" :> "#D62839")
    @@ ("PC" :> "#717568")
    @@ ("PC/Client" :> "#717568")
    @@ ("Client" :> "#717568")
    @@ ("Automotive" :> "#F26419")
    @@ ("Auto" :> "#F26419")
    @@ ("Industrial" :> "#8338EC")
    @@ ("Industrial/IoT" :> "#8338EC")
    @@ ("IoT" :> "#8338EC")
    @@ ("Consumer" :> "#3A86FF")
    @@ ("Embedded" :> "#9B59B6")
    @@ ("Gross Profit" :> "#27AE60")
    @@ ("COGS" :> "#E74C3C")
    @@ ("Operating Income" :> "#2ECC71")
    @@ ("Total Revenue" :> "#34495E")

DEFAULT_COLOR == "#CCCCCC"

\* the loop over COMPANY_COLORS from entry i on: the color it returns, "" when
\* it runs to its end
RECURSIVE sg_company_color(_, _, _)
sg_company_color(node_name, company_lower, i) ==
    IF i > Len(COMPANY_COLORS) THEN ""
    ELSE IF /\ str_in(COMPANY_COLORS[i].key, company_lower)
            /\ node_name \in DOMAIN COMPANY_COLORS[i].colors
         THEN COMPANY_COLORS[i].colors[node_name]
         ELSE sg_company_color(node_name, company_lower, i + 1)

\* every node in the primary color of the company's palette
sg_get_node_color_primary(node_name, company) ==
    LET found == sg_company_color("primary", str_lower(company), 1)
    IN  IF found # "" THEN found ELSE COMPANY_COLORS[1].colors["primary"]

sg_get_node_color(node_name, company) ==
    IF node_name \in DOMAIN END_MARKET_COLORS THEN END_MARKET_COLORS[node_name]
    ELSE LET found == IF company # <<>>
                      THEN sg_company_color(node_name, str_lower(company), 1)
                      ELSE ""
             default_segment_colors == COMPANY_COLORS[1].colors
         IN  IF found # "" THEN found
             ELSE IF node_name \in DOMAIN default_segment_colors
                  THEN default_segment_colors[node_name]
                  ELSE DEFAULT_COLOR

(***************************************************************************)
(* compare_companies.py: get_node_color                                    *)
(***************************************************************************)
cc_end_market_colors ==
    ("AI/Datacenter" :> "#2E86AB")
    @@ ("Mobile" :> "#06A77D")
    @@ ("Enterprise" :> "#D62839")
    @@ ("PC" :> "#717568")
    @@ ("Automotive" :> "#F26419")
    @@ ("Industrial" :> "#8338EC")
    @@ ("Consumer" :> "#3A86FF")
    @@ ("Total Revenue" :> "#34495E")
    @@ ("Gross Profit" :> "#27AE60")
    @@ ("COGS" :> "#E74C3C")

cc_company_segment_colors ==
    <<[key |-> <<"m", "i", "c", "r", "o", "n">>,
       colors |-> [DRAM |-> "#A23B72", NAND |-> "#F18F01", Emerging |-> "#C2C5BB"]],
      [key |-> <<"s", "k", " ", "h", "y", "n", "i", "x">>,
       colors |-> [DRAM |-> "#E74C3C", NAND |-> "#F39C12", Emerging |-> "#95A5A6"]],
      [key |-> <<"s", "a", "m", "s", "u", "n", "g">>,
       colors |-> [DRAM |-> "#3498DB", NAND |-> "#9B59B6", Emerging |-> "#BDC3C7"]]>>

cc_default_colors ==
    [DRAM |-> "#A23B72", NAND |-> "#F18F01", Emerging |-> "#C2C5BB", Other |-> "#C2C5BB"]

RECURSIVE cc_company_color(_, _, _)
cc_company_color(node_name, company_lower, i) ==
    IF i > Len(cc_company_segment_colors) THEN ""
    ELSE IF /\ str_in(cc_company_segment_colors[i].key, company_lower)
            /\ node_name \in DOMAIN cc_company_segment_colors[i].colors
         THEN cc_company_segment_colors[i].colors[node_name]
         ELSE cc_company_color(node_name, company_lower, i + 1)

cc_get_node_color(node_name, company) ==
    IF node_name \in DOMAIN cc_end_market_colors THEN cc_end_market_colors[node_name]
    ELSE LET found == IF company # <<>>
                      THEN cc_company_color(node_name, str_lower(company), 1)
                      ELSE ""
         IN  IF found # "" THEN found
             ELSE IF node_name \in DOMAIN cc_default_colors
                  THEN cc_default_colors[node_name]
                  ELSE "#CCCCCC"

(***************************************************************************)
(* The flow graph returned by prepare_sankey_data.  node_totals and pct    *)
(* are the function's locals of these names (node_totals is returned by    *)
(* sankey_generator.py only); percentages holds the formatted strings as   *)
(* tenths of a percent.  Indices are 0-based as in the code.               *)
(***************************************************************************)
NoGraph ==
    [isNone |-> TRUE, nodes |-> <<>>, node_labels |-> <<>>, node_colors |-> <<>>,
     node_totals |-> <<>>, link_colors |-> <<>>,
     source |-> <<>>,
     target |-> <<>>, value |-> <<>>, pct |-> <<>>, percentages |-> <<>>,
     source_names |-> <<>>, target_names |-> <<>>]

\* no company label given (company=None)
NoCompany == <<>>

\* the label of a node: its name and its total (the text puts the total to
\* two places, or to one place in normalization mode)
node_label(node, total) == <<node, total>>

\* the color of a link: the hex color of its source node as rgba text at
\* opacity 0.4 (every color of the tables begins with '#')
link_color(color) == <<"rgba", color, "0.4">>

\* the position in the list counted from 1
IndexFromOne(seq, x) == CHOOSE i \in DOMAIN seq : seq[i] = x

\* node_dict[node]
IndexOf(seq, x) == (CHOOSE i \in DOMAIN seq : seq[i] = x) - 1

\* df[df[col] == node]['value'].sum()
SumWhere(rows, col, node) ==
    FSum(Column(SelectSeq(rows, LAMBDA r : r[col] = node), "value"))

(***************************************************************************)
(* sankey_generator.py: prepare_sankey_data                                *)
(***************************************************************************)
\* the nodes collected record by record
sg_all_nodes_by_record(rows) ==
    Unique([i \in 1..(2 * Len(rows)) |->
              IF i % 2 = 1 THEN rows[(i + 1) \div 2].source ELSE rows[i \div 2].target])

sg_all_nodes(rows) == Unique(Column(rows, "source") \o Column(rows, "target"))

\* the node total taken from the outflow alone
sg_node_total_outflow(rows, node) == SumWhere(rows, "source", node)

sg_node_total(rows, node) ==
    LET outflow == SumWhere(rows, "source", node)
        inflow == SumWhere(rows, "target", node)
    IN  RMax(outflow, inflow)

\* the share of the source total, not multiplied by 100
sg_pct_fraction(row, source_total) ==
    IF RPos(source_total) THEN FDiv(row.value, source_total) ELSE RZero

sg_pct(row, source_total) ==
    IF RPos(source_total)
    THEN FMul(FDiv(row.value, source_total), RInt(100))
    ELSE RZero

\* the dict returned, of the records rows, the node list, the node totals and
\* the percentages of the records
sg_graph(rows, all_nodes, node_totals, pct, company) ==
    [isNone |-> FALSE,
     nodes |-> all_nodes,
     node_labels |->
        [i \in DOMAIN all_nodes |-> node_label(all_nodes[i], node_totals[all_nodes[i]])],
     node_colors |->
        [i \in DOMAIN all_nodes |-> sg_get_node_color(all_nodes[i], company)],
     node_totals |-> node_totals,
     link_colors |->
        [i \in DOMAIN rows |-> link_color(sg_get_node_color(rows[i].source, company))],
     source |-> [i \in DOMAIN rows |-> IndexOf(all_nodes, rows[i].source)],
     target |-> [i \in DOMAIN rows |-> IndexOf(all_nodes, rows[i].target)],
     value |-> Column(rows, "value"),
     pct |-> pct,
     percentages |-> [i \in DOMAIN rows |-> format_1f(pct[i])],
     source_names |-> Column(rows, "source"),
     target_names |-> Column(rows, "target")]

\* the loop over the records, once the node totals are known
sg_prepare_links(rows, all_nodes, node_totals, company) ==
    sg_graph(rows, all_nodes, node_totals,
             [i \in DOMAIN rows |-> sg_pct(rows[i], node_totals[rows[i].source])],
             company)

\* the loop over the nodes, once the node list is known
sg_prepare_nodes(rows, all_nodes, company) ==
    sg_prepare_links(rows, all_nodes,
                     [node \in Range(all_nodes) |-> sg_node_total(rows, node)],
                     company)

sg_prepare_sankey_data(d, company) ==
    sg_prepare_nodes(d.rows, sg_all_nodes(d.rows), company)

(***************************************************************************)
(* compare_companies.py: prepare_sankey_data                               *)
(***************************************************************************)
root_nodes == <<"Total Revenue", "Revenue", "Total">>

\* the loop without its break: the sum of the last candidate
cc_root_total_no_break(rows, i) == SumWhere(rows, "source", root_nodes[Len(root_nodes)])

\* the loop over root_nodes from candidate i on: the first outflow sum > 0,
\* or the sum of the last candidate when none is
RECURSIVE cc_root_total(_, _)
cc_root_total(rows, i) ==
    LET total_revenue == SumWhere(rows, "source", root_nodes[i])
    IN  IF RPos(total_revenue) \/ i = Len(root_nodes) THEN total_revenue
        ELSE cc_root_total(rows, i + 1)

\* the largest single value instead of the largest per-source sum
cc_largest_value(rows) ==
    CHOOSE m \in Range(Column(rows, "value")) :
        \A x \in Range(Column(rows, "value")) : ~RLess(m, x)

\* df.groupby('source')['value'].sum().max(), of a table with a row
cc_largest_outflow(rows) ==
    LET sums == {SumWhere(rows, "source", s) : s \in Range(Column(rows, "source"))}
    IN  CHOOSE m \in sums : \A x \in sums : ~RLess(m, x)

cc_total_revenue(rows) ==
    LET total_revenue == cc_root_total(rows, 1)
    IN  IF total_revenue = RZero THEN cc_largest_outflow(rows) ELSE total_revenue

\* every value as a percentage of its own source's outflow
cc_normalize_per_source(rows) ==
    [i \in DOMAIN rows |->
        [rows[i] EXCEPT !.value =
            FMul(FDiv(@, SumWhere(rows, "source", rows[i].source)), RInt(100))]]

\* df['value'] / total_revenue * 100 on a copy of the table (a table without
\* rows has no value to rescale)
cc_normalize(rows) ==
    IF rows = <<>> THEN rows
    ELSE LET total_revenue == cc_total_revenue(rows)
         IN  [i \in DOMAIN rows |->
                [rows[i] EXCEPT !.value = FMul(FDiv(@, total_revenue), RInt(100))]]

\* the table after the call if the values were rescaled in the caller's table
cc_caller_df_no_copy(d, norm) ==
    IF norm THEN Frame(d.columns, cc_normalize(d.rows)) ELSE d

\* the caller's table after the call: `df = df.copy()` rebinds the local name
\* before df['value'] is assigned, and nothing else assigns to the table
cc_caller_df(d, norm) == d

cc_all_nodes(rows) == Unique(Column(rows, "source") \o Column(rows, "target"))

\* the node total taken as outflow plus inflow
cc_node_total_both(rows, node) ==
    FAdd(SumWhere(rows, "source", node), SumWhere(rows, "target", node))

cc_node_total(rows, node) ==
    LET outflow == SumWhere(rows, "source", node)
        inflow == SumWhere(rows, "target", node)
    IN  RMax(outflow, inflow)

cc_pct(row, source_total) ==
    IF RPos(source_total)
    THEN FMul(FDiv(row.value, source_total), RInt(100))
    ELSE RZero

\* the dict returned, of the records rows, the node list, the node totals and
\* the percentages of the records
cc_graph(rows, all_nodes, node_totals, pct, company) ==
    [isNone |-> FALSE,
     nodes |-> all_nodes,
     node_labels |->
        [i \in DOMAIN all_nodes |-> node_label(all_nodes[i], node_totals[all_nodes[i]])],
     node_colors |->
        [i \in DOMAIN all_nodes |-> cc_get_node_color(all_nodes[i], company)],
     node_totals |-> node_totals,
     link_colors |->
        [i \in DOMAIN rows |-> link_color(cc_get_node_color(rows[i].source, company))],
     source |-> [i \in DOMAIN rows |-> IndexOf(all_nodes, rows[i].source)],
     target |-> [i \in DOMAIN rows |-> IndexOf(all_nodes, rows[i].target)],
     value |-> Column(rows, "value"),
     pct |-> pct,
     percentages |-> [i \in DOMAIN rows |-> format_1f(pct[i])],
     source_names |-> Column(rows, "source"),
     target_names |-> Column(rows, "target")]

\* the loop over the records, once the node totals are known
cc_prepare_links(rows, all_nodes, node_totals, company) ==
    cc_graph(rows, all_nodes, node_totals,
             [i \in DOMAIN rows |-> cc_pct(rows[i], node_totals[rows[i].source])],
             company)

\* the loop over the nodes, once the node list is known
cc_prepare_nodes(rows, all_nodes, company) ==
    cc_prepare_links(rows, all_nodes,
                     [node \in Range(all_nodes) |-> cc_node_total(rows, node)],
                     company)

\* prepare_sankey_data once the values are rescaled, or left as they are
cc_prepare_rows(rows, company) == cc_prepare_nodes(rows, cc_all_nodes(rows), company)

cc_prepare_sankey_data(d, company, norm) ==
    cc_prepare_rows(IF norm THEN cc_normalize(d.rows) ELSE d.rows, company)

(***************************************************************************)
(* earnings-analysis-skill sankey_revenue.py: prepare_sankey_data          *)
(***************************************************************************)
sr_prepare_sankey_data(d) ==
    LET rows == d.rows
        all_nodes == Unique(Column(rows, "source") \o Column(rows, "target"))
    IN  [isNone |-> FALSE,
         nodes |-> all_nodes,
         source |-> [i \in DOMAIN rows |-> IndexOf(all_nodes, rows[i].source)],
         target |-> [i \in DOMAIN rows |-> IndexOf(all_nodes, rows[i].target)],
         value |-> Column(rows, "value")]

(***************************************************************************)
(* compare_companies.py: create_summary_table                              *)
(***************************************************************************)
segments == <<"DRAM", "NAND", "Emerging", "Other">>
markets == <<"AI/Datacenter", "Mobile", "Enterprise", "PC", "Automotive", "Industrial">>

NoSummary == [isNone |-> TRUE, rows |-> <<>>]

\* the dict literal of one row: a key written again replaces the earlier entry
cc_summary_row(seg, company1, company2, seg1, seg2) ==
    ("Difference ($B)" :> FSub(seg1, seg2))
        @@ ((company2 \o " ($B)") :> seg2)
        @@ ((company1 \o " ($B)") :> seg1)
        @@ ("Segment" :> seg)

\* one of the two loops over a list of categories, from entry i on
RECURSIVE cc_summary_loop(_, _, _, _, _, _)
cc_summary_loop(cats, i, d1, d2, company1, company2) ==
    IF i > Len(cats) THEN <<>>
    ELSE LET seg1 == SumWhere(d1.rows, "target", cats[i])
             seg2 == SumWhere(d2.rows, "target", cats[i])
             rest == cc_summary_loop(cats, i + 1, d1, d2, company1, company2)
         IN  IF RPos(seg1) \/ RPos(seg2)
             THEN <<cc_summary_row(cats[i], company1, company2, seg1, seg2)>> \o rest
             ELSE rest

\* the rows of the markets before those of the segments
cc_create_summary_table_markets_first(d1, d2, company1, company2) ==
    IF d1.isNone \/ d2.isNone THEN NoSummary
    ELSE [isNone |-> FALSE,
          rows |-> cc_summary_loop(markets, 1, d1, d2, company1, company2)
                   \o cc_summary_loop(segments, 1, d1, d2, company1, company2)]

cc_create_summary_table(d1, d2, company1, company2) ==
    IF d1.isNone \/ d2.isNone THEN NoSummary
    ELSE [isNone |-> FALSE,
          rows |-> cc_summary_loop(segments, 1, d1, d2, company1, company2)
                   \o cc_summary_loop(markets, 1, d1, d2, company1, company2)]

(***************************************************************************)
(* compare_companies.py: compare_quarters.  The result holds what the      *)
(* function printed and wrote: the error reported ("" when none), the      *)
(* quarters listed as available, the two graphs and whether                *)
(* create_comparison_sankey wrote the chart.                               *)
(***************************************************************************)
QuarterRows(d, q) == Frame(d.columns, SelectSeq(d.rows, LAMBDA r : r.quarter = q))

\* the check of the columns left out
cc_quarter_column_unchecked(d) == FALSE

\* 'quarter' not in df.columns
cc_no_quarter_column(d) == "quarter" \notin d.columns

\* both slices empty, instead of either
cc_quarters_both_missing(q1_data, q2_data) == q1_data.rows = <<>> /\ q2_data.rows = <<>>

cc_quarters_missing(q1_data, q2_data) == q1_data.rows = <<>> \/ q2_data.rows = <<>>

cc_compare_quarters(d, qs, company, norm) ==
    IF d.isNone
    THEN [error |-> "load", available |-> <<>>, chart |-> FALSE,
          data1 |-> NoGraph, data2 |-> NoGraph]
    ELSE IF cc_no_quarter_column(d)
    THEN [error |-> "no quarter column", available |-> <<>>, chart |-> FALSE,
          data1 |-> NoGraph, data2 |-> NoGraph]
    ELSE LET q1_data == QuarterRows(d, qs[1])
             q2_data == QuarterRows(d, qs[2])
         IN  IF cc_quarters_missing(q1_data, q2_data)
             THEN [error |-> "quarters not found",
                   available |-> Unique(Column(d.rows, "quarter")),
                   chart |-> FALSE, data1 |-> NoGraph, data2 |-> NoGraph]
             ELSE [error |-> "", available |-> <<>>, chart |-> TRUE,
                   data1 |-> cc_prepare_sankey_data(q1_data, company, norm),
                   data2 |-> cc_prepare_sankey_data(q2_data, company, norm)]

(***************************************************************************)
(* competitor-battle-card-skill/scripts/track_news.py: categorize_news.    *)
(* An article is a dict; its title and summary are sequences of            *)
(* characters.  A dict is scanned in the order its entries are written.    *)
(***************************************************************************)
\* the keys of the dict categories, in the order they are written
category_names ==
    <<"strategic", "product_launches", "financial", "leadership", "partnerships",
      "manufacturing", "customers", "technology", "other">>

\* categories as it is created: every list empty
EmptyCategories == [c \in Range(category_names) |-> <<>>]

\* no dict returned yet
NoCategories == [c \in {} |-> <<>>]

category_keywords ==
    <<[category |-> "strategic",
       keywords |->
          <<<<"a", "c", "q", "u", "i", "s", "i", "t", "i", "o", "n">>,
            <<"m", "e", "r", "g", "e", "r">>,
            <<"s", "t", "r", "a", "t", "e", "g", "y">>,
            <<"i", "n", "v", "e", "s", "t", "m", "e", "n", "t">>,
            <<"e", "x", "p", "a", "n", "s", "i", "o", "n">>>>],
      [category |-> "product_launches",
       keywords |->
          <<<<"l", "a", "u", "n", "c", "h">>,
            <<"a", "n", "n", "o", "u", "n", "c", "e">>,
            <<"u", "n", "v", "e", "i", "l">>,
            <<"i", "n", "t", "r", "o", "d", "u", "c", "e">>,
            <<"n", "e", "w", " ", "p", "r", "o", "d", "u", "c", "t">>>>],
      [category |-> "financial",
       keywords |->
          <<<<"e", "a", "r", "n", "i", "n", "g", "s">>,
            <<"r", "e", "v", "e", "n", "u", "e">>,
            <<"m", "a", "r", "g", "i", "n">>,
            <<"p", "r", "o", "f", "i", "t">>,
            <<"g", "u", "i", "d", "a", "n", "c", "e">>>>],
      [category |-> "leadership",
       keywords |->
          <<<<"c", "e", "o">>,
            <<"c", "f", "o">>,
            <<"e", "x", "e", "c", "u", "t", "i", "v", "e">>,
            <<"a", "p", "p", "o", "i", "n", "t">>,
            <<"h", "i", "r", "e">>,
            <<"r", "e", "s", "i", "g", "n", "a", "t", "i", "o", "n">>>>],
      [category |-> "partnerships",
       keywords |->
          <<<<"p", "a", "r", "t", "n", "e", "r", "s", "h", "i", "p">>,
            <<"c", "o", "l", "l", "a", "b", "o", "r", "a", "t", "i", "o", "n">>,
            <<"a", "g", "r", "e", "e", "m", "e", "n", "t">>,
            <<"d", "e", "a", "l">>>>],
      [category |-> "manufacturing",
       keywords |->
          <<<<"f", "a", "b">>,
            <<"f", "a", "c", "t", "o", "r", "y">>,
            <<"c", "a", "p", "a", "c", "i", "t", "y">>,
            <<"p", "r", "o", "d", "u", "c", "t", "i", "o", "n">>,
            <<"y", "i", "e", "l", "d">>>>],
      [category |-> "customers",
       keywords |->
          <<<<"c", "u", "s", "t", "o", "m", "e", "r">>,
            <<"w", "i", "n">>,
            <<"c", "o", "n", "t", "r", "a", "c", "t">>,
            <<"d", "e", "s", "i", "g", "n", " ", "w", "i", "n">>,
            <<"n", "v", "i", "d", "i", "a">>,
            <<"a", "m", "d">>>>],
      [category |-> "technology",
       keywords |->
          <<<<"h", "b", "m">>,
            <<"d", "r", "a", "m">>,
            <<"n", "a", "n", "d">>,
            <<"n", "o", "d", "e">>,
            <<"p", "r", "o", "c", "e", "s", "s">>,
            <<"t", "e", "c", "h", "n", "o", "l", "o", "g", "y">>>>]>>

\* dict.get(key, default)
dict_get(d, key, default) == IF key \in DOMAIN d THEN d[key] ELSE default

\* f"{title_lower} {summary_lower}"
tn_text(article) ==
    str_lower(dict_get(article, "title", <<>>)) \o <<" ">>
        \o str_lower(dict_get(article, "summary", <<>>))

\* any(keyword in text for keyword in keywords)
tn_any_keyword(keywords, text) == \E k \in DOMAIN keywords : str_in(keywords[k], text)

\* the category of the last entry with a keyword in the text, not of the first
tn_category_last(text, i) ==
    LET hits == {j \in DOMAIN category_keywords :
                    tn_any_keyword(category_keywords[j].keywords, text)}
    IN  IF hits = {} THEN "other"
        ELSE category_keywords[CHOOSE j \in hits : \A h \in hits : h <= j].category

\* the loop over category_keywords.items() from entry i on: the category of the
\* first entry one of whose keywords is in the text (break), "other" when the
\* loop ends with categorized still False
RECURSIVE tn_category(_, _)
tn_category(text, i) ==
    IF i > Len(category_keywords) THEN "other"
    ELSE IF tn_any_keyword(category_keywords[i].keywords, text)
    THEN category_keywords[i].category
    ELSE tn_category(text, i + 1)

\* the loop over articles from article i on, categories the dict so far
RECURSIVE tn_categorize_from(_, _, _)
tn_categorize_from(arts, i, categories) ==
    IF i > Len(arts) THEN categories
    ELSE tn_categorize_from(arts, i + 1,
            [categories EXCEPT ![tn_category(tn_text(arts[i]), 1)] = Append(@, arts[i])])

tn_categorize_news(arts) == tn_categorize_from(arts, 1, EmptyCategories)

(***************************************************************************)
(* Inputs                                                                  *)
(***************************************************************************)
NoFile == [exists |-> FALSE, columns |-> {}, rows |-> <<>>]
CsvFile(cols, rows) == [exists |-> TRUE, columns |-> cols, rows |-> rows]

RowsOver(S, T, V, Q) == [source : S, target : T, value : V, quarter : Q]

\* nothing reported yet: no error, no quarters listed, no chart written, no
\* summary printed, load_data not called, no color returned; exit is the exit
\* status once pc = "exited"
NoOut ==
    [error |-> "", available |-> <<>>, chart |-> FALSE, summary |-> FALSE,
     loaded |-> FALSE, color |-> "", exit |-> 0,
     stdout |-> <<>>, stderr |-> <<>>]

\* print(msg): the message is written to sys.stdout
py_print(o, msg) ==
    [o EXCEPT !.error = msg, !.stdout = IF msg = "" THEN @ ELSE Append(@, msg)]

\* an exception nothing catches: the traceback is written to sys.stderr and
\* the exit status is 1
py_raise(o, exc) == [o EXCEPT !.error = exc, !.stderr = Append(@, exc), !.exit = 1]

\* single-table pipelines: every kind of value cell
GenLabels == {"Total Revenue", "DRAM", "Mobile"}
GenValues == {NanCell, StrCell, NumCell(-1), NumCell(0), NumCell(1), NumCell(2)}
GenFiles ==
    {CsvFile(ReqCols, rows) :
        rows \in SeqsUpTo(RowsOver(GenLabels, GenLabels, GenValues, {NaN}), MaxRows)}

\* normalization: the three root candidates and two other labels as sources
NormSources == {"Total Revenue", "Revenue", "Total", "DRAM", "Mobile"}
NormTargets == {"Total", "DRAM", "Mobile"}
NormValues == {NumCell(1), NumCell(2)}
NormFiles ==
    {CsvFile(ReqCols, rows) :
        rows \in SeqsUpTo(RowsOver(NormSources, NormTargets, NormValues, {NaN}),
                          MaxNormRows)}

\* a run that takes no command line
NoArgs == [create_template |-> FALSE]

StartAll(arts, ar, s, a, f, f2, norm, qs, nm) ==
    /\ articles = arts
    /\ arith = ar
    /\ categorized = NoCategories
    /\ script = s
    /\ args = a
    /\ file = f
    /\ file2 = f2
    /\ normalize = norm
    /\ quarters = qs
    /\ companies = nm
    /\ pc = "start"
    /\ df = None
    /\ df2 = None
    /\ input = None
    /\ first = NoGraph
    /\ data = NoGraph
    /\ data2 = NoGraph
    /\ runs = 0
    /\ summary = NoSummary
    /\ out = NoOut
    /\ written = NoFile

\* a run that is handed no articles
StartIn(ar, s, a, f, f2, norm, qs, nm) == StartAll(<<>>, ar, s, a, f, f2, norm, qs, nm)

\* a run in exact arithmetic
StartWith(s, a, f, f2, norm, qs, nm) == StartIn("exact", s, a, f, f2, norm, qs, nm)

Start(s, f, f2, norm, qs, nm) == StartWith(s, NoArgs, f, f2, norm, qs, nm)

Init ==
    \/ \E f \in GenFiles : Start("sankey_generator", f, NoFile, FALSE, <<>>, <<>>)
    \/ \E f \in GenFiles, norm \in BOOLEAN :
            Start("compare_companies", f, NoFile, norm, <<>>, <<>>)

InitNorm ==
    \E f \in NormFiles, norm \in BOOLEAN :
        Start("compare_companies", f, NoFile, norm, <<>>, <<>>)

(***************************************************************************)
(* sankey_generator.py main: df = load_data(args.data), then               *)
(* prepare_sankey_data(df, args.company)                                   *)
(***************************************************************************)
SgLoad ==
    /\ script = "sankey_generator"
    /\ pc = "start"
    /\ df' = sg_load_data(file)
    /\ pc' = IF df'.isNone THEN "failed" ELSE "loaded"
    /\ UNCHANGED <<inputs, categorized, df2, input, first, data,
                   data2, runs, summary, out, written>>

SgPrepare ==
    /\ script = "sankey_generator"
    /\ pc = "loaded"
    /\ input' = df
    /\ data' = sg_prepare_sankey_data(df, NoCompany)
    /\ first' = data'
    /\ runs' = 1
    /\ pc' = "prepared"
    /\ UNCHANGED <<inputs, categorized, df, df2, data2, summary,
                   out, written>>

(***************************************************************************)
(* compare_companies.py, one table: df = load_data(file), then             *)
(* prepare_sankey_data(df, company, normalize)                             *)
(***************************************************************************)
CcLoad ==
    /\ script = "compare_companies"
    /\ pc = "start"
    /\ df' = cc_load_data(file)
    /\ pc' = IF df'.isNone THEN "failed" ELSE "loaded"
    /\ UNCHANGED <<inputs, categorized, df2, input, first, data,
                   data2, runs, summary, out, written>>

CcPrepare ==
    /\ script = "compare_companies"
    /\ pc = "loaded"
    /\ input' = df
    /\ data' = cc_prepare_sankey_data(df, NoCompany, normalize)
    /\ df' = cc_caller_df(df, normalize)
    /\ first' = data'
    /\ runs' = 1
    /\ pc' = "prepared"
    /\ UNCHANGED <<inputs, categorized, df2, data2, summary, out, written>>

\* the records of a graph as a table again
AsTable(g) ==
    Frame(ReqCols,
          [i \in DOMAIN g.value |->
              [source |-> g.source_names[i], target |-> g.target_names[i],
               value |-> g.value[i], quarter |-> NaN]])

\* prepare_sankey_data with normalize=True on the values a normalization returned
CcPrepareAgain ==
    /\ script = "compare_companies"
    /\ pc = "prepared"
    /\ normalize
    /\ runs < MaxRuns
    /\ input' = AsTable(data)
    /\ data' = cc_prepare_sankey_data(input', NoCompany, TRUE)
    /\ runs' = runs + 1
    /\ UNCHANGED <<inputs, categorized, pc, df, df2, first, data2,
                   summary, out, written>>

Next == SgLoad \/ SgPrepare \/ CcLoad \/ CcPrepare

Spec == Init /\ [][Next]_vars

NextNorm == CcLoad \/ CcPrepare \/ CcPrepareAgain

SpecNorm == InitNorm /\ [][NextNorm]_vars

(***************************************************************************)
(* compare_companies.py: create_summary_table(file1, file2, company1,      *)
(* company2): both files are loaded, then the table is built               *)
(***************************************************************************)
SumTargets == {"DRAM", "Mobile", "Consumer"}
SumValues == {NumCell(0), NumCell(1), NumCell(2)}
SumFiles(n) ==
    {NoFile} \cup
    {CsvFile(ReqCols, rows) :
        rows \in SeqsUpTo(RowsOver({"Total Revenue"}, SumTargets, SumValues, {NaN}), n)}
SumCompanies == {<<"Micron", "SK Hynix">>, <<"Micron", "Micron">>}

InitSummary ==
    \E f \in SumFiles(MaxSumRows), f2 \in SumFiles(MaxSum2Rows), nm \in SumCompanies :
        Start("create_summary_table", f, f2, FALSE, <<>>, nm)

CreateSummaryTable ==
    /\ script = "create_summary_table"
    /\ pc = "start"
    /\ df' = cc_load_data(file)
    /\ df2' = cc_load_data(file2)
    /\ summary' = cc_create_summary_table(df', df2', companies[1], companies[2])
    /\ pc' = "done"
    /\ UNCHANGED <<inputs, categorized, input, first, data, data2, runs, out, written>>

NextSummary == CreateSummaryTable

SpecSummary == InitSummary /\ [][NextSummary]_vars

(***************************************************************************)
(* create_summary_table over files whose rows name several segments and    *)
(* markets, in any order, and a label that is neither                      *)
(***************************************************************************)
\* rows of each of the two files
MaxOrderRows == 2

OrderTargets == {"NAND", "DRAM", "PC", "Mobile", "Consumer"}
OrderFiles ==
    {CsvFile(ReqCols, rows) :
        rows \in SeqsUpTo(RowsOver({"Total Revenue"}, OrderTargets, {NumCell(1)}, {NaN}),
                          MaxOrderRows)}

InitOrder ==
    \E f \in OrderFiles, f2 \in OrderFiles :
        Start("create_summary_table", f, f2, FALSE, <<>>, <<"Micron", "SK Hynix">>)

SpecOrder == InitOrder /\ [][NextSummary]_vars

(***************************************************************************)
(* track_news.py: categorize_news(articles)                                *)
(***************************************************************************)
\* articles of a list handed to categorize_news
MaxArticles == 2

\* "Micron Announces HBM3E", "Something New", "Q4 Results"
NewsTitles ==
    {<<"M", "i", "c", "r", "o", "n", " ", "A", "n", "n", "o", "u", "n", "c", "e", "s", " ", "H", "B", "M", "3", "E">>,
     <<"S", "o", "m", "e", "t", "h", "i", "n", "g", " ", "N", "e", "w">>,
     <<"Q", "4", " ", "R", "e", "s", "u", "l", "t", "s">>}
\* "Product line grows", "Revenue up", "New fab"
NewsSummaries ==
    {<<"P", "r", "o", "d", "u", "c", "t", " ", "l", "i", "n", "e", " ", "g", "r", "o", "w", "s">>,
     <<"R", "e", "v", "e", "n", "u", "e", " ", "u", "p">>,
     <<"N", "e", "w", " ", "f", "a", "b">>}
\* articles with a title and a summary, and with one of the two keys only
NewsArticles ==
    [title : NewsTitles, summary : NewsSummaries]
        \cup [title : {<<"M", "i", "c", "r", "o", "n", " ", "A", "n", "n", "o", "u", "n", "c", "e", "s", " ", "H", "B", "M", "3", "E">>}]
        \cup [summary : {<<"R", "e", "v", "e", "n", "u", "e", " ", "u", "p">>}]

NewsLists == SeqsUpTo(NewsArticles, MaxArticles)

InitNews ==
    \E arts \in NewsLists :
        StartAll(arts, "exact", "track_news", NoArgs, NoFile, NoFile, FALSE, <<>>, <<>>)

CategorizeNews ==
    /\ script = "track_news"
    /\ pc = "start"
    /\ categorized' = tn_categorize_news(articles)
    /\ pc' = "categorized"
    /\ UNCHANGED <<inputs, df, df2, input, first, data, data2, runs, summary, out,
                   written>>

NextNews == CategorizeNews

SpecNews == InitNews /\ [][NextNews]_vars

(***************************************************************************)
(* compare_companies.py: compare_quarters(data_file, quarters, company,    *)
(* output_file, normalize)                                                 *)
(***************************************************************************)
QuarterCells == {"Q1 FY25", "Q2 FY25", NaN}
QuarterValues == {NumCell(0), NumCell(1), NumCell(2)}
Requested == {"Q1 FY25", "Q2 FY25", "Q5 FY25"}

\* one row for each quarter of fiscal 2025
FiscalYearFile ==
    CsvFile(AllCols,
            [i \in 1..4 |->
                [source |-> "Total Revenue", target |-> "DRAM", value |-> NumCell(i),
                 quarter |-> <<"Q1 FY25", "Q2 FY25", "Q3 FY25", "Q4 FY25">>[i]]])

QuarterFiles ==
    {NoFile, FiscalYearFile} \cup
    {CsvFile(cols, rows) :
        cols \in {ReqCols, AllCols},
        rows \in SeqsUpTo(RowsOver({"Total Revenue"}, {"DRAM"}, QuarterValues,
                                   QuarterCells), MaxQRows)}

InitQuarters ==
    \E f \in QuarterFiles, q1 \in Requested, q2 \in Requested, norm \in BOOLEAN :
        Start("compare_quarters", f, NoFile, norm, <<q1, q2>>, <<>>)

CompareQuarters ==
    /\ script = "compare_quarters"
    /\ pc = "start"
    /\ df' = cc_load_data(file)
    /\ LET r == cc_compare_quarters(df', quarters, NoCompany, normalize)
       IN  /\ out' = py_print([NoOut EXCEPT !.available = r.available,
                                                 !.chart = r.chart, !.loaded = TRUE],
                                   r.error)
           /\ data' = r.data1
           /\ data2' = r.data2
    /\ pc' = "done"
    /\ UNCHANGED <<inputs, categorized, df2, input, first, runs, summary, written>>

NextQuarters == CompareQuarters

SpecQuarters == InitQuarters /\ [][NextQuarters]_vars

(***************************************************************************)
(* load_data of both scripts on files with comment lines, partial rows and  *)
(* missing columns                                                         *)
(***************************************************************************)
LoadSources == {"DRAM", NaN, "# Layer 1: Total Revenue to Segments"}
LoadTargets == {"Mobile", NaN}
LoadColumns ==
    {ReqCols, AllCols, {"target", "value"}, {"source", "value"}, {"source", "target"}}
LoadFiles ==
    {NoFile} \cup
    {CsvFile(cols, rows) :
        cols \in LoadColumns,
        rows \in SeqsUpTo(RowsOver(LoadSources, LoadTargets, GenValues, {"Q1 FY25"}),
                          MaxLoadRows)}

InitLoad ==
    \E s \in {"sankey_generator", "compare_companies"}, f \in LoadFiles :
        Start(s, f, NoFile, FALSE, <<>>, <<>>)

NextLoad == SgLoad \/ CcLoad

SpecLoad == InitLoad /\ [][NextLoad]_vars

(***************************************************************************)
(* get_node_color(node_name, company) of both scripts                      *)
(***************************************************************************)
ColorNodes ==
    {"DRAM", "NAND", "Emerging", "Other", "Mobile", "AI/Datacenter", "Industrial",
     "Embedded", "Total Revenue", "HBM", "primary"}
ColorCompanies ==
    {NoCompany,
     <<"M", "i", "c", "r", "o", "n">>,
     <<"M", "I", "C", "R", "O", "N", " ", "T", "E", "C", "H">>,
     <<"S", "K", " ", "H", "y", "n", "i", "x">>,
     <<"S", "K", "H", "y", "n", "i", "x">>,
     <<"S", "a", "m", "s", "u", "n", "g">>,
     <<"S", "a", "m", "s", "u", "n", "g", " ", "v", "s", " ", "M", "i", "c", "r", "o", "n">>,
     <<"K", "i", "o", "x", "i", "a">>,
     <<"I", "n", "t", "e", "l">>}

InitColor ==
    \E s \in {"sankey_generator", "compare_companies"},
       n \in ColorNodes, c \in ColorCompanies :
        StartWith(s, [node_name |-> n, company |-> c], NoFile, NoFile, FALSE, <<>>, <<>>)

SgGetNodeColor ==
    /\ script = "sankey_generator"
    /\ pc = "start"
    /\ out' = [out EXCEPT !.color = sg_get_node_color(args.node_name, args.company)]
    /\ pc' = "returned"
    /\ UNCHANGED <<inputs, categorized, df, df2, input, first, data, data2, runs, summary, written>>

CcGetNodeColor ==
    /\ script = "compare_companies"
    /\ pc = "start"
    /\ out' = [out EXCEPT !.color = cc_get_node_color(args.node_name, args.company)]
    /\ pc' = "returned"
    /\ UNCHANGED <<inputs, categorized, df, df2, input, first, data, data2, runs, summary, written>>

NextColor == SgGetNodeColor \/ CcGetNodeColor

SpecColor == InitColor /\ [][NextColor]_vars

(***************************************************************************)
(* prepare_sankey_data of the three scripts, called on one table with one  *)
(* company label and normalization off: data is the graph of               *)
(* sankey_generator.py, data2 that of compare_companies.py, first that of  *)
(* sankey_revenue.py.  The link colors are not modelled.                   *)
(***************************************************************************)
PrepSources == {"Total Revenue", "DRAM", "Other"}
PrepTargets == {"DRAM", "Other", "Mobile", "Embedded"}
PrepValues == {NumCell(1), NumCell(2)}
PrepCompanies == {NoCompany, <<"S", "a", "m", "s", "u", "n", "g">>, <<"K", "i", "o", "x", "i", "a">>}
PrepFiles ==
    {CsvFile(ReqCols, rows) :
        rows \in SeqsUpTo(RowsOver(PrepSources, PrepTargets, PrepValues, {NaN}),
                          MaxPrepRows)}

InitPrepare ==
    \E f \in PrepFiles, c \in PrepCompanies :
        StartWith("prepare_sankey_data", [company |-> c], f, NoFile, FALSE, <<>>, <<>>)

PrepareInEach ==
    /\ script = "prepare_sankey_data"
    /\ pc = "start"
    /\ input' = Frame(file.columns, Typed(file.rows))
    /\ data' = sg_prepare_sankey_data(input', args.company)
    /\ data2' = cc_prepare_sankey_data(input', args.company, FALSE)
    /\ first' = sr_prepare_sankey_data(input')
    /\ runs' = 1
    /\ pc' = "compared"
    /\ UNCHANGED <<inputs, categorized, df, df2, summary, out, written>>

NextPrepare == PrepareInEach

SpecPrepare == InitPrepare /\ [][NextPrepare]_vars

(***************************************************************************)
(* prepare_sankey_data called a second time on the table the first call    *)
(* was given, as compare_quarters and a caller that keeps its table do     *)
(***************************************************************************)
TwiceFiles ==
    {CsvFile(ReqCols, rows) :
        rows \in SeqsUpTo(RowsOver({"Total Revenue", "DRAM"}, {"DRAM", "Mobile"},
                                   {NumCell(1), NumCell(2)}, {NaN}),
                          MaxTwiceRows)}

InitTwice ==
    \/ \E f \in TwiceFiles : Start("sankey_generator", f, NoFile, FALSE, <<>>, <<>>)
    \/ \E f \in TwiceFiles, norm \in BOOLEAN :
            Start("compare_companies", f, NoFile, norm, <<>>, <<>>)

SgPrepareSame ==
    /\ script = "sankey_generator"
    /\ pc = "prepared"
    /\ data2' = sg_prepare_sankey_data(df, NoCompany)
    /\ runs' = runs + 1
    /\ pc' = "prepared again"
    /\ UNCHANGED <<inputs, categorized, df, df2, input, first, data, summary, out, written>>

CcPrepareSame ==
    /\ script = "compare_companies"
    /\ pc = "prepared"
    /\ data2' = cc_prepare_sankey_data(df, NoCompany, normalize)
    /\ df' = cc_caller_df(df, normalize)
    /\ runs' = runs + 1
    /\ pc' = "prepared again"
    /\ UNCHANGED <<inputs, categorized, df2, input, first, data, summary, out, written>>

NextTwice == SgLoad \/ SgPrepare \/ SgPrepareSame \/ CcLoad \/ CcPrepare \/ CcPrepareSame

SpecTwice == InitTwice /\ [][NextTwice]_vars

(***************************************************************************)
(* Runs in either arithmetic: load_data, prepare_sankey_data with          *)
(* normalize=True and again on its output (compare_companies.py), and      *)
(* prepare_sankey_data of the three scripts on one table.                  *)
(***************************************************************************)
\* rows of an input file of the runs in "float" arithmetic
MaxFloatRows == 2

FloatSources == {"Total Revenue", "DRAM"}
FloatTargets == {"DRAM", "Mobile"}
FloatValues == {NumCell(1), NumCell(2), NumCell(3)}
FloatFiles ==
    {CsvFile(ReqCols, rows) :
        rows \in SeqsUpTo(RowsOver(FloatSources, FloatTargets, FloatValues, {NaN}),
                          MaxFloatRows)}

InitFloat ==
    \/ \E ar \in {"exact", "float"}, f \in FloatFiles :
            StartIn(ar, "compare_companies", NoArgs, f, NoFile, TRUE, <<>>, <<>>)
    \/ \E ar \in {"exact", "float"}, f \in FloatFiles :
            StartIn(ar, "prepare_sankey_data", [company |-> NoCompany], f, NoFile,
                    FALSE, <<>>, <<>>)

NextFloat == CcLoad \/ CcPrepare \/ CcPrepareAgain \/ PrepareInEach

SpecFloat == InitFloat /\ [][NextFloat]_vars

(***************************************************************************)
(* Tables built in the code and files written by it.  A comment line of a  *)
(* written file is a row whose first field begins with '#'; the comment    *)
(* lines above the header line are not kept.                               *)
(***************************************************************************)
\* a record of a table: the value n/d
Record(s, t, n, d) == [source |-> s, target |-> t, value |-> Rat(n, d), quarter |-> NaN]

CommentLine(text) == [source |-> text, target |-> NaN, value |-> NanCell, quarter |-> NaN]

\* the line `s,t,0.0`
ZeroLine(s, t) == [source |-> s, target |-> t, value |-> DecCell(0, 10), quarter |-> NaN]

ZeroLines(s, targets) == [i \in DOMAIN targets |-> ZeroLine(s, targets[i])]

\* the whole part of the number alone
to_csv_value_int(v) == NumCell(v.n \div v.d)

\* the text written for a float: its shortest decimal, of one place at least
to_csv_value(v) ==
    LET places == {k \in {10, 100, 1000} : k % v.d = 0}
        scale == CHOOSE k \in places : \A j \in places : k <= j
    IN  DecCell(v.n * (scale \div v.d), scale)

\* DataFrame.to_csv(path, index=False) of a table of source, target, value
to_csv(rows) ==
    CsvFile(ReqCols,
            [i \in DOMAIN rows |->
                [source |-> rows[i].source, target |-> rows[i].target,
                 value |-> to_csv_value(rows[i].value), quarter |-> NaN]])

sg_create_sample_data ==
    <<Record("Total Revenue", "DRAM", 675, 100),
      Record("Total Revenue", "NAND", 185, 100),
      Record("Total Revenue", "Emerging", 10, 100),
      Record("DRAM", "AI/Datacenter", 350, 100),
      Record("DRAM", "Mobile", 160, 100),
      Record("DRAM", "Enterprise", 85, 100),
      Record("DRAM", "PC", 65, 100),
      Record("DRAM", "Automotive", 15, 100),
      Record("NAND", "AI/Datacenter", 70, 100),
      Record("NAND", "Mobile", 50, 100),
      Record("NAND", "Enterprise", 35, 100),
      Record("NAND", "PC", 25, 100),
      Record("NAND", "Automotive", 5, 100),
      Record("Emerging", "AI/Datacenter", 8, 100),
      Record("Emerging", "Industrial", 2, 100)>>

sg_create_template_csv ==
    CsvFile(ReqCols,
        <<CommentLine("# Layer 1: Total Revenue to Segments")>>
        \o ZeroLines("Total Revenue", <<"DRAM", "NAND", "Emerging">>)
        \o <<CommentLine("#"), CommentLine("#")>>
        \o ZeroLines("DRAM", <<"AI/Datacenter", "Mobile", "Enterprise", "PC", "Automotive">>)
        \o <<CommentLine("#"), CommentLine("#")>>
        \o ZeroLines("NAND", <<"AI/Datacenter", "Mobile", "Enterprise", "PC", "Automotive">>)
        \o [i \in 1..7 |-> CommentLine("#")])

sr_create_sample_revenue_flow ==
    <<Record("DRAM", "AI/Datacenter", 350, 100),
      Record("DRAM", "Mobile", 180, 100),
      Record("DRAM", "Enterprise", 90, 100),
      Record("DRAM", "PC", 45, 100),
      Record("DRAM", "Automotive", 10, 100),
      Record("NAND", "AI/Datacenter", 80, 100),
      Record("NAND", "Mobile", 60, 100),
      Record("NAND", "Enterprise", 40, 100),
      Record("NAND", "PC", 30, 100),
      Record("NAND", "Automotive", 10, 100)>>

(***************************************************************************)
(* extract_revenue_data.py: create_company_template, interactive_data_entry *)
(* and main.  What the user types at a prompt is a cell: a decimal, or     *)
(* text that float() rejects.                                              *)
(***************************************************************************)
ex_COMPANY_PATTERNS ==
    <<[key |-> <<"m", "i", "c", "r", "o", "n">>, segments |-> <<"DRAM", "NAND", "Other">>],
      [key |-> <<"s", "k", " ", "h", "y", "n", "i", "x">>,
       segments |-> <<"DRAM", "NAND Flash", "Others">>],
      [key |-> <<"s", "a", "m", "s", "u", "n", "g">>,
       segments |-> <<"Memory", "System LSI", "Foundry">>]>>

\* COMPANY_PATTERNS.get(company_lower, COMPANY_PATTERNS['micron'])
ex_patterns(company_lower) ==
    IF \E i \in DOMAIN ex_COMPANY_PATTERNS : ex_COMPANY_PATTERNS[i].key = company_lower
    THEN ex_COMPANY_PATTERNS[CHOOSE i \in DOMAIN ex_COMPANY_PATTERNS :
                                ex_COMPANY_PATTERNS[i].key = company_lower]
    ELSE ex_COMPANY_PATTERNS[1]

\* the loop over the segments that writes the second layer, from segment i on;
\* Other and Others are the segments whose lower case is 'other' or 'others'
RECURSIVE ex_layer2(_, _)
ex_layer2(segs, i) ==
    IF i > Len(segs) THEN <<>>
    ELSE IF segs[i] \in {"Other", "Others"} THEN ex_layer2(segs, i + 1)
    ELSE <<CommentLine("#")>>
         \o ZeroLines(segs[i], <<"AI/Datacenter", "Mobile", "Enterprise", "PC", "Automotive">>)
         \o <<CommentLine("#")>>
         \o ex_layer2(segs, i + 1)

ex_create_company_template(company) ==
    LET segs == ex_patterns(str_lower(company)).segments
    IN  CsvFile(ReqCols,
            <<CommentLine("#"), CommentLine("# Layer 1: Total Revenue to Segments")>>
            \o ZeroLines("Total Revenue", segs)
            \o <<CommentLine("#")>>
            \o ex_layer2(segs, 1))

ex_segment_prompts == <<"DRAM", "NAND", "Emerging/Other">>
ex_end_markets == <<"AI/Datacenter", "Mobile", "Enterprise", "PC", "Automotive", "Other">>

\* seg.replace('/Other', '')
ex_segment_name(seg) == IF seg = "Emerging/Other" THEN "Emerging" ELSE seg

\* float(input(...)) gave a value > 0 (text that is no number raises
\* ValueError, which is passed over)
ex_entered(cell) == cell.t = "num" /\ cell.n > 0

\* the loop over the end markets of one segment, from market m on
RECURSIVE ex_flows(_, _, _, _)
ex_flows(seg, remaining, m, answers) ==
    IF m > Len(ex_end_markets) \/ ~RPos(remaining) THEN <<>>
    ELSE IF ex_entered(answers[m])
         THEN LET value == Rat(answers[m].n, answers[m].d)
              IN  <<[source |-> seg, target |-> ex_end_markets[m], value |-> value,
                     quarter |-> NaN]>>
                  \o ex_flows(seg, FSub(remaining, value), m + 1, answers)
         ELSE ex_flows(seg, remaining, m + 1, answers)

\* the rows of the table interactive_data_entry returns: the first layer of
\* the segments entered, then the flows of each of them
RECURSIVE ex_layer1(_, _)
ex_layer1(entries, i) ==
    IF i > Len(ex_segment_prompts) THEN <<>>
    ELSE IF ex_entered(entries[i])
         THEN <<[source |-> "Total Revenue",
                 target |-> ex_segment_name(ex_segment_prompts[i]),
                 value |-> Rat(entries[i].n, entries[i].d), quarter |-> NaN]>>
              \o ex_layer1(entries, i + 1)
         ELSE ex_layer1(entries, i + 1)

RECURSIVE ex_all_flows(_, _, _)
ex_all_flows(layer1, i, answers) ==
    IF i > Len(layer1) THEN <<>>
    ELSE ex_flows(layer1[i].target, layer1[i].value, 1, answers)
         \o ex_all_flows(layer1, i + 1, answers)

ex_interactive_data_entry(entries, answers) ==
    LET layer1 == ex_layer1(entries, 1)
    IN  Frame(ReqCols, layer1 \o ex_all_flows(layer1, 1, answers))

\* what a run of main leaves: the table in hand, the graphs, the summary
\* printed, the report and the file written
Left(d, d2, g, g2, sm, o, w) ==
    [df |-> d, df2 |-> d2, data |-> g, data2 |-> g2, summary |-> sm, out |-> o,
     written |-> w]

Exit(code, error) == py_print([NoOut EXCEPT !.exit = code], error)

ex_main(a) ==
    IF a.create_template
    THEN LET company == IF a.company # <<>> THEN a.company ELSE <<"M", "i", "c", "r", "o", "n">>
         IN  Left(None, None, NoGraph, NoGraph, NoSummary, Exit(0, ""),
                  ex_create_company_template(company))
    ELSE IF a.interactive
    THEN LET d == ex_interactive_data_entry(a.segments, a.flows)
         IN  Left(d, None, NoGraph, NoGraph, NoSummary, Exit(0, ""),
                  IF d.rows # <<>> THEN to_csv(d.rows) ELSE NoFile)
    ELSE IF a.pdf # <<>>
    \* extract_from_pdf returns None on each of its paths
    THEN Left(None, None, NoGraph, NoGraph, NoSummary, Exit(0, ""), NoFile)
    ELSE Left(None, None, NoGraph, NoGraph, NoSummary, Exit(1, "usage"), NoFile)

(***************************************************************************)
(* sankey_generator.py: main                                               *)
(***************************************************************************)
\* main from the load on
sg_run(a, f) ==
    IF a.data = <<>> /\ ~a.demo
    THEN Left(None, None, NoGraph, NoGraph, NoSummary, Exit(1, "usage"), NoFile)
    ELSE LET d == IF a.data # <<>> THEN sg_load_data(f)
                  ELSE Frame(ReqCols, sg_create_sample_data)
             company == IF a.data = <<>> /\ a.company = <<>> THEN <<"M", "i", "c", "r", "o", "n">>
                        ELSE a.company
             called == [NoOut EXCEPT !.loaded = a.data # <<>>]
         IN  IF d.isNone
             THEN Left(None, None, NoGraph, NoGraph, NoSummary,
                       py_print([called EXCEPT !.exit = 1], "load"), NoFile)
             ELSE IF ~(ReqCols \subseteq d.columns)
             THEN Left(d, None, NoGraph, NoGraph, NoSummary,
                       py_print([called EXCEPT !.exit = 1], "columns"), NoFile)
             ELSE Left(d, None, sg_prepare_sankey_data(d, company), NoGraph, NoSummary,
                       [called EXCEPT !.summary = TRUE, !.chart = TRUE], NoFile)

\* the template written only when neither --data nor --demo is given
sg_main_template_last(a, f) ==
    IF a.create_template /\ a.data = <<>> /\ ~a.demo
    THEN Left(None, None, NoGraph, NoGraph, NoSummary, Exit(0, ""),
              sg_create_template_csv)
    ELSE sg_run(a, f)

sg_main(a, f) ==
    IF a.create_template
    THEN Left(None, None, NoGraph, NoGraph, NoSummary, Exit(0, ""),
              sg_create_template_csv)
    ELSE sg_run(a, f)

(***************************************************************************)
(* sankey_revenue.py: load_revenue_flow_data and main.  main returns None  *)
(* on every path and the script calls it without sys.exit: the exit status *)
(* is 0.                                                                   *)
(***************************************************************************)
\* pd.read_csv(file_path) of a file whose rows are complete and numeric
sr_load_revenue_flow_data(f) ==
    IF ~f.exists THEN None
    ELSE Frame(f.columns,
               Typed([i \in DOMAIN f.rows |->
                        [source |-> read_cell(f.rows[i].source),
                         target |-> read_cell(f.rows[i].target),
                         value |-> f.rows[i].value,
                         quarter |-> read_cell(f.rows[i].quarter)]]))

sr_main(a, f) ==
    IF a.create_template
    THEN Left(None, None, NoGraph, NoGraph, NoSummary, Exit(0, ""),
              to_csv(sr_create_sample_revenue_flow))
    ELSE LET d == IF a.data # <<>> THEN sr_load_revenue_flow_data(f)
                  ELSE Frame(ReqCols, sr_create_sample_revenue_flow)
             called == [NoOut EXCEPT !.loaded = a.data # <<>>]
         IN  IF d.isNone
             THEN Left(None, None, NoGraph, NoGraph, NoSummary,
                       py_print(called, "load"), NoFile)
             ELSE IF ~(ReqCols \subseteq d.columns)
             THEN Left(d, None, NoGraph, NoGraph, NoSummary,
                       py_print(called, "columns"), NoFile)
             ELSE Left(d, None, sr_prepare_sankey_data(d), NoGraph, NoSummary,
                       [called EXCEPT !.summary = TRUE, !.chart = TRUE], NoFile)

(***************************************************************************)
(* compare_companies.py: compare_companies and main                        *)
(***************************************************************************)
\* Path(file).stem of a path without directories
path_stem(path) ==
    LET dots == {i \in DOMAIN path : path[i] = "." /\ i > 1}
    IN  IF dots = {} THEN path
        ELSE SubSeq(path, 1, (CHOOSE i \in dots : \A j \in dots : j <= i) - 1)

\* str.replace('_', ' ')
str_replace_underscore(t) == [i \in DOMAIN t |-> IF t[i] = "_" THEN " " ELSE t[i]]

IsLetter(c) == LetterOf(ascii_uppercase, c) > 0 \/ LetterOf(ascii_lowercase, c) > 0

\* str.title(): a letter after a non-letter in upper case, the others in lower
str_title(t) ==
    [i \in DOMAIN t |->
        IF i = 1 \/ ~IsLetter(t[i - 1])
        THEN IF LetterOf(ascii_lowercase, t[i]) > 0
             THEN ascii_uppercase[LetterOf(ascii_lowercase, t[i])]
             ELSE t[i]
        ELSE str_lower(<<t[i]>>)[1]]

\* the characters of a text as one string
RECURSIVE str_join(_)
str_join(t) == IF t = <<>> THEN "" ELSE Head(t) \o str_join(Tail(t))

\* str.split(','): the pieces between the commas
RECURSIVE str_split(_)
str_split(t) ==
    IF \A i \in DOMAIN t : t[i] # "," THEN <<t>>
    ELSE LET i == CHOOSE k \in DOMAIN t : t[k] = "," /\ \A j \in 1..(k - 1) : t[j] # ","
         IN  <<SubSeq(t, 1, i - 1)>> \o str_split(SubSeq(t, i + 1, Len(t)))

\* str.strip()
RECURSIVE str_strip(_)
str_strip(t) ==
    IF t # <<>> /\ Head(t) = " " THEN str_strip(Tail(t))
    ELSE IF t # <<>> /\ t[Len(t)] = " " THEN str_strip(SubSeq(t, 1, Len(t) - 1))
    ELSE t

\* compare_companies once both files are read.  The result holds the two
\* tables, the two graphs, whether the chart was written and whether
\* prepare_sankey_data raised KeyError on a table without a source or a
\* target column
cc_compare_loaded(d1, d2, company1, company2, norm) ==
    IF d1.isNone \/ d2.isNone
    THEN [df1 |-> d1, df2 |-> d2, data1 |-> NoGraph, data2 |-> NoGraph,
          chart |-> FALSE, raised |-> FALSE]
    ELSE IF ~(ReqCols \subseteq d1.columns) \/ ~(ReqCols \subseteq d2.columns)
    \* the first graph is prepared before the second call raises
    THEN [df1 |-> d1, df2 |-> d2,
          data1 |-> IF ReqCols \subseteq d1.columns
                    THEN cc_prepare_sankey_data(d1, company1, norm)
                    ELSE NoGraph,
          data2 |-> NoGraph, chart |-> FALSE, raised |-> TRUE]
    ELSE [df1 |-> d1, df2 |-> d2,
          data1 |-> cc_prepare_sankey_data(d1, company1, norm),
          data2 |-> cc_prepare_sankey_data(d2, company2, norm),
          chart |-> TRUE, raised |-> FALSE]

cc_compare_companies(f1, f2, path1, path2, name1, name2, norm) ==
    cc_compare_loaded(
        cc_load_data(f1), cc_load_data(f2),
        IF name1 # <<>> THEN name1
        ELSE str_title(str_replace_underscore(path_stem(path1))),
        IF name2 # <<>> THEN name2
        ELSE str_title(str_replace_underscore(path_stem(path2))),
        norm)

\* either file given, instead of both
cc_company_mode_either(a) == a.company1 # <<>> \/ a.company2 # <<>>

\* args.company1 and args.company2
cc_company_mode(a) == a.company1 # <<>> /\ a.company2 # <<>>

\* args.data and args.quarters
cc_quarters_mode(a) == a.data # <<>> /\ a.quarters # <<>>

\* [q.strip() for q in args.quarters.split(',')]
cc_quarters_list(text) ==
    LET pieces == str_split(text)
    IN  [i \in DOMAIN pieces |-> str_join(str_strip(pieces[i]))]

\* main after compare_companies returned r and the summary sm was made
cc_left_by_companies(r, sm) ==
    IF r.raised
    THEN Left(r.df1, r.df2, r.data1, r.data2, NoSummary,
              py_raise([NoOut EXCEPT !.loaded = TRUE], "KeyError"), NoFile)
    ELSE Left(r.df1, r.df2, r.data1, r.data2, sm,
              py_print([NoOut EXCEPT !.loaded = TRUE, !.chart = r.chart,
                                     !.summary = ~sm.isNone],
                       IF r.chart THEN "" ELSE "load"),
              NoFile)

\* the --summary branch: create_summary_table reads the two files again
cc_main_summary(a, r) ==
    IF a.summary /\ ~r.raised
    THEN cc_create_summary_table(r.df1, r.df2,
             IF a.name1 # <<>> THEN str_join(a.name1) ELSE "Company 1",
             IF a.name2 # <<>> THEN str_join(a.name2) ELSE "Company 2")
    ELSE NoSummary

cc_main_companies(a, r) == cc_left_by_companies(r, cc_main_summary(a, r))

\* main after compare_quarters returned r on the table d
cc_left_by_quarters(d, r) ==
    IF r.error = "" /\ ~(ReqCols \subseteq d.columns)
    THEN Left(d, None, NoGraph, NoGraph, NoSummary,
              py_raise([NoOut EXCEPT !.loaded = TRUE], "KeyError"), NoFile)
    ELSE Left(d, None, r.data1, r.data2, NoSummary,
              py_print([NoOut EXCEPT !.loaded = TRUE, !.available = r.available,
                                     !.chart = r.chart],
                       r.error),
              NoFile)

cc_main_loaded(d, qs, company, norm) ==
    cc_left_by_quarters(d, cc_compare_quarters(d, qs, company, norm))

cc_main_quarters(a, f, qs, norm) ==
    IF Len(qs) # 2
    THEN Left(None, None, NoGraph, NoGraph, NoSummary, Exit(1, "two quarters"), NoFile)
    ELSE cc_main_loaded(cc_load_data(f), qs, a.name1, norm)

cc_main(a, f, f2, norm) ==
    IF cc_company_mode(a)
    THEN cc_main_companies(
             a, cc_compare_companies(f, f2, a.company1, a.company2, a.name1, a.name2,
                                     norm))
    ELSE IF cc_quarters_mode(a)
    THEN cc_main_quarters(a, f, cc_quarters_list(a.quarters), norm)
    ELSE Left(None, None, NoGraph, NoGraph, NoSummary, Exit(1, "usage"), NoFile)

(***************************************************************************)
(* Runs of the four main functions                                         *)
(***************************************************************************)
MainRows ==
    RowsOver({"Total Revenue"}, {"DRAM"}, {NumCell(1), NumCell(2)},
             {"Q1 FY25", "Q2 FY25"})
MainColumns == {ReqCols, AllCols, {"target", "value"}, {"source", "target"}}
MainFiles ==
    {NoFile} \cup
    {CsvFile(cols, rows) : cols \in MainColumns, rows \in SeqsUpTo(MainRows, MaxMainRows)}
\* the second file of a comparison: missing, without a source column, complete
MainFiles2 ==
    {NoFile,
     CsvFile({"target", "value"}, <<>>),
     CsvFile(ReqCols, <<[source |-> "Total Revenue", target |-> "NAND",
                         value |-> NumCell(1), quarter |-> NaN]>>)}

QuarterArgs ==
    {<<>>,
     <<"Q1 FY25">>,
     <<"Q1 FY25", ",", " ", "Q2 FY25">>,
     <<"Q1 FY25", ",", "Q5 FY25", " ">>,
     <<"Q1 FY25", ",">>,
     <<"Q1 FY25", ",", "Q2 FY25", ",", "Q5 FY25">>}

DataArgs == {<<>>, <<"q", ".", "c", "s", "v">>}

SgArgs ==
    [create_template : BOOLEAN, data : DataArgs, demo : BOOLEAN,
     company : {NoCompany, <<"S", "a", "m", "s", "u", "n", "g">>}]
CcArgs ==
    [company1 : {<<>>, <<"m", "i", "c", "r", "o", "n", ".", "c", "s", "v">>},
     company2 : {<<>>, <<"s", "k", "_", "h", "y", "n", "i", "x", ".", "c", "s", "v">>},
     name1 : {NoCompany, <<"M", "i", "c", "r", "o", "n">>},
     name2 : {NoCompany},
     data : DataArgs, quarters : QuarterArgs, summary : BOOLEAN]
SrArgs == [create_template : BOOLEAN, data : DataArgs]

\* what is typed at the prompts: nothing or text, zero, a negative number,
\* a half, one, two
Entries == {StrCell, NumCell(0), NumCell(-1), DecCell(5, 10), NumCell(1), NumCell(2)}
\* the answers to the first MaxAnswers market prompts of a segment; the other
\* prompts are left empty
Answers ==
    {[m \in DOMAIN ex_end_markets |-> IF m <= MaxAnswers THEN first_answers[m] ELSE NanCell] :
        first_answers \in [1..MaxAnswers -> Entries]}
ExArgs(S, F) ==
    [create_template : BOOLEAN, interactive : BOOLEAN,
     pdf : {<<>>, <<"q", "2", ".", "p", "d", "f">>},
     company : {NoCompany, <<"S", "K", " ", "H", "y", "n", "i", "x">>},
     segments : S, flows : F]

InitMain ==
    \/ \E a \in SgArgs, f \in MainFiles :
            StartWith("sankey_generator", a, f, NoFile, FALSE, <<>>, <<>>)
    \/ \E a \in CcArgs, f \in MainFiles, f2 \in MainFiles2 :
            StartWith("compare_companies", a, f, f2, FALSE, <<>>, <<>>)
    \/ \E a \in SrArgs, f \in MainFiles :
            StartWith("sankey_revenue", a, f, NoFile, FALSE, <<>>, <<>>)
    \/ \E a \in ExArgs({<<NumCell(2), StrCell, NumCell(1)>>},
                       {[m \in DOMAIN ex_end_markets |-> NumCell(1)]}) :
            StartWith("extract_revenue_data", a, NoFile, NoFile, FALSE, <<>>, <<>>)

\* one run of main, from parse_args to the exit of the process
Run(r) ==
    /\ df' = r.df
    /\ df2' = r.df2
    /\ data' = r.data
    /\ data2' = r.data2
    /\ summary' = r.summary
    /\ out' = r.out
    /\ written' = r.written
    /\ pc' = "exited"
    /\ UNCHANGED <<inputs, categorized, input, first, runs>>

SgMain == script = "sankey_generator" /\ pc = "start" /\ Run(sg_main(args, file))

CcMain ==
    script = "compare_companies" /\ pc = "start" /\ Run(cc_main(args, file, file2, normalize))

SrMain == script = "sankey_revenue" /\ pc = "start" /\ Run(sr_main(args, file))

ExtractMain == script = "extract_revenue_data" /\ pc = "start" /\ Run(ex_main(args))

NextMain == SgMain \/ CcMain \/ SrMain \/ ExtractMain

SpecMain == InitMain /\ [][NextMain]_vars

(***************************************************************************)
(* A table written by extract_revenue_data.py --interactive or by          *)
(* sankey_revenue.py --create-template, then read by load_data of          *)
(* sankey_generator.py                                                     *)
(***************************************************************************)
InitRoundTrip ==
    \/ \E s \in [1..3 -> Entries], w \in Answers :
            StartWith("extract_revenue_data",
                      [create_template |-> FALSE, interactive |-> TRUE, pdf |-> <<>>,
                       company |-> NoCompany, segments |-> s, flows |-> w],
                      NoFile, NoFile, FALSE, <<>>, <<>>)
    \/ StartWith("sankey_revenue", [create_template |-> TRUE, data |-> <<>>],
                 NoFile, NoFile, FALSE, <<>>, <<>>)

\* load_data(path) of the file the run wrote
Reload ==
    /\ pc = "exited"
    /\ written.exists
    /\ df2' = sg_load_data(written)
    /\ pc' = "reloaded"
    /\ UNCHANGED <<inputs, categorized, df, input, first, data, data2, runs, summary, out, written>>

NextRoundTrip == ExtractMain \/ SrMain \/ Reload

SpecRoundTrip == InitRoundTrip /\ [][NextRoundTrip]_vars

(***************************************************************************)
(* Properties.  The sums and orders below are stated over the records      *)
(* themselves, apart from the operators that model the code.               *)
(***************************************************************************)
\* the sum of values[i] over the records i with names[i] = n
RECURSIVE FlowSum(_, _, _)
FlowSum(names, values, n) ==
    IF names = <<>> THEN RZero
    ELSE RAdd(IF Head(names) = n THEN Head(values) ELSE RZero,
              FlowSum(Tail(names), Tail(values), n))

OutSum(t, n) == FlowSum(Column(t.rows, "source"), Column(t.rows, "value"), n)
InSum(t, n) == FlowSum(Column(t.rows, "target"), Column(t.rows, "value"), n)
GreaterOf(a, b) == IF RLess(b, a) THEN a ELSE b
Percent(a, b) == Rat(100 * a.n * b.d, a.d * b.n)

\* the records of the graph: those handed to prepare_sankey_data, with the
\* values the graph holds (the normalized ones in normalization mode)
GraphRecords ==
    Frame(ReqCols,
          [i \in DOMAIN input.rows |-> [input.rows[i] EXCEPT !.value = data.value[i]]])

Labels(t) == Range(Column(t.rows, "source")) \cup Range(Column(t.rows, "target"))

FirstPos(seq, x) == CHOOSE i \in DOMAIN seq : seq[i] = x /\ \A j \in 1..(i - 1) : seq[j] # x

\* nodes lists the elements of seq, each once, in order of first appearance in seq
InFirstSeenOrder(nodes, seq) ==
    /\ Range(nodes) = Range(seq)
    /\ \A i, j \in DOMAIN nodes : i < j =>
            /\ nodes[i] # nodes[j]
            /\ FirstPos(seq, nodes[i]) < FirstPos(seq, nodes[j])

\* all sources, then all targets
SourcesThenTargets(t) == Column(t.rows, "source") \o Column(t.rows, "target")

\* record by record: source 1, target 1, source 2, target 2, ...
RecordByRecord(t) ==
    [i \in 1..(2 * Len(t.rows)) |->
        IF i % 2 = 1 THEN t.rows[(i + 1) \div 2].source ELSE t.rows[i \div 2].target]

\* C1 (as claimed): every record the loader returns (load_data of
\* sankey_generator.py and of compare_companies.py) has a numeric value > 0.
C1_LoadedValuesPositive ==
    pc \in {"loaded", "prepared"} =>
        \A i \in DOMAIN df.rows : df.rows[i].value.d = 1 /\ df.rows[i].value.n > 0

\* C2: for every node n of the graph, node_total(n) is the greater of the sum of
\* the values of the records with source n and of those with target n.
C2_NodeTotalIsMax ==
    pc = "prepared" =>
        /\ DOMAIN data.node_totals = Range(data.nodes)
        /\ \A n \in Range(data.nodes) :
              data.node_totals[n] = GreaterOf(OutSum(GraphRecords, n), InSum(GraphRecords, n))

\* a prepared graph with a node whose inflow exceeds its outflow, both positive
C2_Witness ==
    /\ pc = "prepared"
    /\ \E n \in Range(data.nodes) :
          /\ RPos(OutSum(GraphRecords, n))
          /\ RLess(OutSum(GraphRecords, n), InSum(GraphRecords, n))
          /\ data.node_totals[n] = InSum(GraphRecords, n)

\* C3 (as claimed): the percentage of every record e is
\* e.value / node_total(e.source) * 100, and is 0 exactly when
\* node_total(e.source) = 0.
C3_EdgePercentage ==
    pc = "prepared" =>
        \A k \in DOMAIN input.rows :
            LET total == data.node_totals[input.rows[k].source]
            IN  /\ total # RZero => data.pct[k] = Percent(data.value[k], total)
                /\ data.pct[k] = RZero <=> total = RZero

\* C4 (as claimed): the node list holds exactly the distinct labels of the
\* records, each once, in the order in which the records first mention them.
C4_NodesInRecordOrder ==
    pc = "prepared" => InFirstSeenOrder(data.nodes, RecordByRecord(input))

\* C4 (amended): the node list holds exactly the distinct labels of the records,
\* each once, in order of first appearance in the sequence of all sources
\* followed by all targets.
C4_NodesSourcesThenTargets ==
    pc = "prepared" =>
        /\ Range(data.nodes) = Labels(input)
        /\ InFirstSeenOrder(data.nodes, SourcesThenTargets(input))

\* a graph whose node order differs from the record-by-record order
C4_Witness ==
    /\ pc = "prepared"
    /\ Len(data.nodes) >= 3
    /\ ~InFirstSeenOrder(data.nodes, RecordByRecord(input))

\* C5 (as claimed): for every table the loader can return, every node of the
\* graph has node_total >= 0, and never 0.
C5_NodeTotalPositive ==
    pc = "prepared" => \A n \in Range(data.nodes) : RPos(data.node_totals[n])

\* the root candidates of normalization mode, in order
Candidates == <<"Total Revenue", "Revenue", "Total">>

HasRoot(t) == \E i \in DOMAIN Candidates : OutSum(t, Candidates[i]) # RZero

\* the outflow sum of the first candidate whose outflow sum is nonzero
FirstRootSum(t) ==
    LET i == CHOOSE i \in DOMAIN Candidates :
                /\ OutSum(t, Candidates[i]) # RZero
                /\ \A j \in 1..(i - 1) : OutSum(t, Candidates[j]) = RZero
    IN  OutSum(t, Candidates[i])

Sources(t) == Range(Column(t.rows, "source"))

\* the largest outflow sum of a source of the table
LargestOutSum(t) ==
    CHOOSE m \in {OutSum(t, s) : s \in Sources(t)} :
        \A s \in Sources(t) : ~RLess(m, OutSum(t, s))

InZeroToHundred(x) == RPos(x) /\ ~RLess(RInt(100), x)

\* C6: in normalization mode, when a candidate root has a nonzero outflow sum,
\* every record's value becomes value / R * 100, R the outflow sum of the first
\* such candidate.
C6_NormalizeByFirstRoot ==
    (pc = "prepared" /\ normalize /\ HasRoot(input)) =>
        /\ Len(data.value) = Len(input.rows)
        /\ \A k \in DOMAIN input.rows :
              data.value[k] = Percent(input.rows[k].value, FirstRootSum(input))

\* a normalized table, first prepared, in which "Total Revenue" has no outflow
\* and "Revenue" and "Total" have different ones
C6_Witness ==
    /\ pc = "prepared" /\ normalize /\ runs = 1
    /\ OutSum(input, "Total Revenue") = RZero
    /\ RPos(OutSum(input, "Revenue"))
    /\ RPos(OutSum(input, "Total"))
    /\ OutSum(input, "Revenue") # OutSum(input, "Total")
    /\ \E k \in DOMAIN data.value : data.value[k] # input.rows[k].value

Categories ==
    {"DRAM", "NAND", "Emerging", "Other", "AI/Datacenter", "Mobile", "Enterprise", "PC",
     "Automotive", "Industrial"}

RowsOf(c) == {i \in DOMAIN summary.rows : summary.rows[i]["Segment"] = c}

\* C9 (as claimed): the summary of two loaded tables has a row for a category
\* exactly when its target-sum is positive in one of the tables; the row holds
\* both target-sums and their difference, first minus second.
C9_SummaryRows ==
    (pc = "done" /\ script = "create_summary_table" /\ ~summary.isNone) =>
        \A c \in Categories :
            LET t1 == InSum(df, c)
                t2 == InSum(df2, c)
            IN  /\ RowsOf(c) # {} <=> (RPos(t1) \/ RPos(t2))
                /\ \A i \in RowsOf(c) :
                      /\ (companies[1] \o " ($B)") \in DOMAIN summary.rows[i]
                      /\ (companies[2] \o " ($B)") \in DOMAIN summary.rows[i]
                      /\ summary.rows[i][companies[1] \o " ($B)"] = t1
                      /\ summary.rows[i][companies[2] \o " ($B)"] = t2
                      /\ summary.rows[i]["Difference ($B)"] = RSub(t1, t2)

\* requested quarter q matches a loaded row
Matches(q) ==
    /\ ~df.isNone
    /\ "quarter" \in df.columns
    /\ \E i \in DOMAIN df.rows : df.rows[i].quarter = q

\* C10: when one of the two requested quarters matches no loaded row,
\* compare_quarters reports an error and produces no comparison, and the error
\* lists the quarter values of the loaded rows.
C10_MissingQuarterReported ==
    (pc = "done" /\ script = "compare_quarters"
        /\ (~Matches(quarters[1]) \/ ~Matches(quarters[2]))) =>
        /\ out.error # ""
        /\ ~out.chart
        /\ data.isNone /\ data2.isNone
        /\ (~df.isNone /\ "quarter" \in df.columns) =>
              /\ out.error = "quarters not found"
              /\ InFirstSeenOrder(out.available, Column(df.rows, "quarter"))

\* "Q5 FY25" requested, with a quarter that is there, of a table holding the
\* four quarters of fiscal 2025
C10_Witness ==
    /\ pc = "done" /\ script = "compare_quarters"
    /\ quarters = <<"Q1 FY25", "Q5 FY25">>
    /\ out.error = "quarters not found"
    /\ out.available = <<"Q1 FY25", "Q2 FY25", "Q3 FY25", "Q4 FY25">>
    /\ ~out.chart

\* the rows of the file that hold a source, a target and a number > 0
ValidRecord(r) ==
    /\ r.source # NaN /\ ~StartsComment(r.source)
    /\ r.target # NaN /\ ~StartsComment(r.target)
    /\ r.value.t = "num" /\ r.value.n > 0

ValidRecords(f) == Typed(SelectSeq(f.rows, ValidRecord))

\* C11: load_data returns no table (None) when the file cannot be opened and
\* when one of the columns source, target, value is absent from it.
C11_LoadFailsWithoutColumns ==
    (pc \in {"loaded", "failed"} /\ (~file.exists \/ ~(ReqCols \subseteq file.columns)))
        => df.isNone

\* C15: load_data returns, in file order, exactly the rows of the file that hold
\* a source, a target and a numeric value > 0; comment lines and blank or
\* partial rows are skipped.
C15_LoadsValidRowsInOrder ==
    (pc \in {"loaded", "failed"} /\ file.exists /\ ReqCols \subseteq file.columns) =>
        /\ ~df.isNone
        /\ df.rows = ValidRecords(file)

\* C14: when the loaded table has no quarter column, compare_quarters reports
\* the message about the missing column, prepares no graph and writes no chart.
C14_NoQuarterColumnReported ==
    (pc = "done" /\ script = "compare_quarters" /\ ~df.isNone
        /\ "quarter" \notin df.columns) =>
        /\ out.error = "no quarter column"
        /\ out.available = <<>>
        /\ ~out.chart
        /\ data.isNone /\ data2.isNone

\* a table of two loaded rows with the columns source, target, value only
C14_Witness ==
    /\ pc = "done" /\ script = "compare_quarters"
    /\ df.columns = ReqCols
    /\ Len(df.rows) = 2
    /\ out.error = "no quarter column"
    /\ ~out.chart

\* get_node_color of the script that runs
ColorOf(s, node_name, company) ==
    IF s = "sankey_generator" THEN sg_get_node_color(node_name, company)
    ELSE cc_get_node_color(node_name, company)

EndMarketNames == Range(markets) \cup {"Consumer", "Embedded"}

\* C16: the color get_node_color returns for an end-market name is the same
\* whatever the company argument.
C16_EndMarketColorIgnoresCompany ==
    (pc = "returned" /\ args.node_name \in EndMarketNames) =>
        \A c \in ColorCompanies : ColorOf(script, args.node_name, c) = out.color

\* Mobile asked for Samsung
C16_Witness ==
    /\ pc = "returned"
    /\ args.node_name = "Mobile"
    /\ args.company = <<"S", "a", "m", "s", "u", "n", "g">>
    /\ out.color = "#06A77D"

\* the company palettes of a script, and the palette it falls back on
Palettes(s) ==
    IF s = "sankey_generator" THEN COMPANY_COLORS ELSE cc_company_segment_colors
MicronPalette(s) ==
    IF s = "sankey_generator" THEN COMPANY_COLORS[1].colors ELSE cc_default_colors

\* the palette of the i-th known company key; Micron's, the first, is the one
\* the script falls back on
PaletteOf(s, i) == IF i = 1 THEN MicronPalette(s) ELSE Palettes(s)[i].colors

\* the known company keys that are substrings of the lower-cased label
MatchingKeys(s, company) ==
    {i \in DOMAIN Palettes(s) : str_in(Palettes(s)[i].key, str_lower(company))}

InNoPalette(s, node_name) ==
    /\ node_name \notin DOMAIN MicronPalette(s)
    /\ \A i \in DOMAIN Palettes(s) : node_name \notin DOMAIN Palettes(s)[i].colors
    /\ node_name \notin
          DOMAIN (IF s = "sankey_generator" THEN END_MARKET_COLORS
                  ELSE cc_end_market_colors)

\* C17: for a segment name get_node_color returns the color of the palette of
\* the first known company key that is a substring of the lower-cased company
\* label, the Micron palette's color when no company is given or none matches;
\* for a name in no palette it returns the gray #CCCCCC.
C17_SegmentColorOfFirstKey ==
    pc = "returned" =>
        /\ args.node_name \in Range(segments) =>
              IF MatchingKeys(script, args.company) # {}
              THEN LET k == CHOOSE i \in MatchingKeys(script, args.company) :
                               \A j \in MatchingKeys(script, args.company) : i <= j
                       palette == PaletteOf(script, k)
                   IN  /\ args.node_name \in DOMAIN palette
                       /\ out.color = palette[args.node_name]
              ELSE out.color = MicronPalette(script)[args.node_name]
        /\ InNoPalette(script, args.node_name) => out.color = "#CCCCCC"

\* C18: on one table, with one company label and normalization off, the three
\* copies of prepare_sankey_data return the same node list, source and target
\* indices and values, and the two that have them the same node totals, node
\* colors and edge percentages.
C18_SamePreparation ==
    pc = "compared" =>
        /\ data.nodes = data2.nodes /\ data.nodes = first.nodes
        /\ data.source = data2.source /\ data.source = first.source
        /\ data.target = data2.target /\ data.target = first.target
        /\ data.value = data2.value /\ data.value = first.value
        /\ data.node_totals = data2.node_totals
        /\ data.percentages = data2.percentages
        /\ data.node_colors = data2.node_colors

\* the file is missing or lacks a required column
Unloadable(f) == ~f.exists \/ ~(ReqCols \subseteq f.columns)

\* the run read an input file that is missing or lacks a required column
LoadFailed ==
    /\ out.loaded
    /\ \/ Unloadable(file)
       \/ script = "compare_companies" /\ cc_company_mode(args) /\ Unloadable(file2)

UsageError == out.error \in {"usage", "two quarters"}

\* the run wrote its chart or its template
Succeeded == out.chart \/ written.exists

\* C12: sankey_generator.py, compare_companies.py and sankey_revenue.py exit
\* with 0 when the run succeeds, and with a nonzero code when the arguments
\* are a usage error or the input file is missing or lacks a required column.
C12_ExitCodes ==
    (script \in {"sankey_generator", "compare_companies", "sankey_revenue"}
        /\ pc = "exited")
    => /\ Succeeded => out.exit = 0
       /\ (UsageError \/ LoadFailed) => out.exit # 0

\* C13: a run of compare_companies.py whose arguments hold neither both of
\* --company1 and --company2 nor --data with a --quarters list of exactly two
\* entries reports usage guidance, loads and compares nothing, and exits
\* with a nonzero code.
C13_UsageErrorOnIncompleteArguments ==
    (script = "compare_companies" /\ pc = "exited"
        /\ ~(args.company1 # <<>> /\ args.company2 # <<>>)
        /\ ~(args.data # <<>> /\ args.quarters # <<>>
                /\ Len(cc_quarters_list(args.quarters)) = 2))
    => /\ UsageError
       /\ ~out.loaded /\ df.isNone /\ df2.isNone
       /\ ~out.chart /\ data.isNone /\ data2.isNone /\ summary.isNone
       /\ out.exit # 0

C13_Witness ==
    /\ script = "compare_companies" /\ pc = "exited"
    /\ args.company1 # <<>> /\ args.company2 = <<>>
    /\ args.data # <<>> /\ Len(cc_quarters_list(args.quarters)) = 3
    /\ file.exists /\ ReqCols \subseteq file.columns
    /\ out.error = "two quarters" /\ out.exit = 1 /\ ~out.chart /\ ~out.loaded

\* the records a run wrote to its CSV file
WrittenRecords ==
    IF script = "sankey_revenue" THEN sr_create_sample_revenue_flow ELSE df.rows

C20_TemplateOnly ==
    (script \in {"sankey_generator", "sankey_revenue", "extract_revenue_data"}
        /\ pc = "exited" /\ args.create_template)
    => /\ written.exists
       /\ ~out.loaded /\ df.isNone
       /\ ~out.summary /\ summary.isNone
       /\ ~out.chart /\ data.isNone
       /\ out.exit = 0

C20_Witness ==
    /\ script = "sankey_generator" /\ pc = "exited"
    /\ args.create_template /\ args.data # <<>> /\ args.demo
    /\ file.exists
    /\ written = sg_create_template_csv
    /\ ~out.chart /\ out.exit = 0

\* C21: a run that fails to load its input (the file is missing or lacks a
\* required column) reports the error on standard error and writes nothing
\* about it to standard output, and the run ends there without a chart.
C21_LoadErrorOnStderr ==
    (pc = "exited" /\ LoadFailed)
    => /\ out.stderr # <<>>
       /\ out.stdout = <<>>
       /\ ~out.chart

\* the records of the table that touch node n, each once
Touching(t, n) == SelectSeq(t.rows, LAMBDA r : r.source = n \/ r.target = n)
TouchSum(t, n) == RSum(Column(Touching(t, n), "value"))

\* the nodes with a self-loop record in the table
SelfLoops(t) == {t.rows[i].source : i \in {k \in DOMAIN t.rows : t.rows[k].source = t.rows[k].target}}

\* C22 (as claimed): for a table with a self-loop record n -> n, the node
\* total of n that prepare_sankey_data computes (sankey_generator.py and
\* compare_companies.py) counts the record twice: it exceeds the sum of the
\* values of the distinct records that touch n.
C22_SelfLoopCountedTwice ==
    pc = "compared"
    => \A n \in SelfLoops(input) :
          /\ RLess(TouchSum(input, n), data.node_totals[n])
          /\ RLess(TouchSum(input, n), data2.node_totals[n])

\* C22 (amended): for a table with a self-loop record n -> n, the node total
\* of n is the greater of the outflow sum and the inflow sum of n, the
\* self-loop counted once in each; with positive values it never exceeds the
\* sum of the values of the distinct records that touch n.
C22_SelfLoopCountedOnce ==
    pc = "compared"
    => \A n \in SelfLoops(input) :
          /\ data.node_totals[n] = GreaterOf(OutSum(input, n), InSum(input, n))
          /\ data2.node_totals[n] = GreaterOf(OutSum(input, n), InSum(input, n))
          /\ ~RLess(TouchSum(input, n), data.node_totals[n])
          /\ ~RLess(TouchSum(input, n), data2.node_totals[n])

\* a self-loop of value 2 alone on its node: the node total is 2
C22_Witness ==
    /\ pc = "compared"
    /\ \E i \in DOMAIN input.rows :
          /\ input.rows[i].source = "DRAM" /\ input.rows[i].target = "DRAM"
          /\ input.rows[i].value = RInt(2)
    /\ Len(Touching(input, "DRAM")) = 1
    /\ data.node_totals["DRAM"] = RInt(2)
    /\ data2.node_totals["DRAM"] = RInt(2)

\* C23: in a company comparison (compare_companies.py with --company1 and
\* --company2), if either file fails to load (it is missing or lacks a
\* required column), no graph is prepared, no chart is written and the
\* summary table asked for with --summary is not printed.
C23_FailedLoadAbortsComparison ==
    (script = "compare_companies" /\ pc = "exited" /\ cc_company_mode(args)
        /\ (Unloadable(file) \/ Unloadable(file2)))
    => /\ data.isNone /\ data2.isNone
       /\ ~out.chart
       /\ ~out.summary /\ summary.isNone

\* the slice of the loaded table for the i-th quarter asked for
Slice(i) == QuarterRows(df, cc_quarters_list(args.quarters)[i])

\* C24: a quarterly comparison run with --summary (compare_companies.py
\* --data --quarters with two quarters found in the table) produces the
\* summary table of the two quarter slices: a row for each category with a
\* positive target-sum in a slice, holding the difference of the two sums.
C24_SummaryOfQuarterSlices ==
    (script = "compare_companies" /\ pc = "exited"
        /\ ~cc_company_mode(args) /\ cc_quarters_mode(args)
        /\ args.summary /\ out.chart)
    => /\ out.summary
       /\ ~summary.isNone
       /\ \A c \in Categories :
             LET t1 == InSum(Slice(1), c)
                 t2 == InSum(Slice(2), c)
             IN  /\ RowsOf(c) # {} <=> (RPos(t1) \/ RPos(t2))
                 /\ \A i \in RowsOf(c) : summary.rows[i]["Difference ($B)"] = RSub(t1, t2)

\* the lists of graph g that hold one entry for each record
EdgeLists(g) ==
    <<g.source, g.target, g.value, g.link_colors, g.percentages, g.source_names,
      g.target_names>>

\* the source and target indices of graph g point at the records' labels in
\* its node list
IndicesPointAtLabels(g) ==
    \A k \in DOMAIN input.rows :
        /\ g.source[k] \in 0..(Len(g.nodes) - 1)
        /\ g.target[k] \in 0..(Len(g.nodes) - 1)
        /\ g.nodes[g.source[k] + 1] = input.rows[k].source
        /\ g.nodes[g.target[k] + 1] = input.rows[k].target

\* the lists of graph g of sankey_generator.py or compare_companies.py
\* (script s) follow the records and the nodes
ListsFollowRecords(s, g) ==
    /\ \A i \in DOMAIN EdgeLists(g) : Len(EdgeLists(g)[i]) = Len(input.rows)
    /\ Len(g.node_labels) = Len(g.nodes)
    /\ Len(g.node_colors) = Len(g.nodes)
    /\ Len(g.nodes) = Cardinality(Labels(input))
    /\ IndicesPointAtLabels(g)
    /\ \A k \in DOMAIN input.rows :
          /\ g.value[k] = input.rows[k].value
          /\ g.source_names[k] = input.rows[k].source
          /\ g.target_names[k] = input.rows[k].target
          /\ g.link_colors[k] = <<"rgba", ColorOf(s, input.rows[k].source, args.company), "0.4">>
          /\ g.percentages[k]
                = format_1f(Percent(input.rows[k].value,
                                    g.node_totals[input.rows[k].source]))

\* C25: in the output of each prepare_sankey_data the lists with an entry for
\* each record (source and target indices, values, link colors, percentages,
\* source and target names) have the length of the record table and follow
\* its order, the lists with an entry for each node (labels, colors) have the
\* length of the node list, and each index is a position of the node list
\* that holds the record's source or target.
C25_ListsFollowRecordsAndNodes ==
    pc = "compared"
    => /\ ListsFollowRecords("sankey_generator", data)
       /\ ListsFollowRecords("compare_companies", data2)
       /\ Len(first.source) = Len(input.rows)
       /\ Len(first.target) = Len(input.rows)
       /\ Len(first.value) = Len(input.rows)
       /\ Len(first.nodes) = Cardinality(Labels(input))
       /\ IndicesPointAtLabels(first)
       /\ \A k \in DOMAIN input.rows : first.value[k] = input.rows[k].value

\* two records over three nodes, the second record's source last in the list
C25_Witness ==
    /\ pc = "compared"
    /\ Len(input.rows) = 2
    /\ Len(data.nodes) = 3
    /\ data.source = <<0, 1>>
    /\ data.target = <<2, 0>>
    /\ data2.source = <<0, 1>> /\ first.target = <<2, 0>>
    /\ Len(data.link_colors) = 2 /\ Len(data.node_labels) = 3

\* roundings of one operation that two numbers taken as equal may differ by
MaxRoundings == 8

\* a and b > 0 differ by at most MaxRoundings roundings of a float operation,
\* each of at most b / 2^FloatBits
Near(a, b) ==
    /\ ~RLess(RMul(b, Rat(MaxRoundings, Pow2(FloatBits))), RSub(a, b))
    /\ ~RLess(RMul(b, Rat(MaxRoundings, Pow2(FloatBits))), RSub(b, a))

\* the sum of the percentages of the edges of graph g that leave node n
OutPercent(g, n) == FlowSum(Column(input.rows, "source"), g.pct, n)

\* the percentages of graph g lie in (0, 100] and those leaving a node sum to
\* at most 100, to 100 exactly when its outflow sum is at least its inflow sum
PercentagesBounded(g) ==
    /\ \A k \in DOMAIN g.pct : RPos(g.pct[k]) /\ ~RLess(RInt(100), g.pct[k])
    /\ \A n \in Range(g.nodes) :
          /\ ~RLess(RInt(100), OutPercent(g, n))
          /\ OutPercent(g, n) = RInt(100)
                <=> ~RLess(OutSum(input, n), InSum(input, n))

\* C26 (as claimed): when every record value is > 0, every edge percentage
\* computed by prepare_sankey_data (sankey_generator.py and
\* compare_companies.py) lies in (0, 100], and the percentages of the edges
\* leaving a node sum to at most 100, to exactly 100 if and only if the node's
\* outflow sum is at least its inflow sum.
C26_PercentagesBounded ==
    (pc = "compared" /\ \A k \in DOMAIN input.rows : RPos(input.rows[k].value))
    => PercentagesBounded(data) /\ PercentagesBounded(data2)

\* the percentages of graph g lie in (0, 100], and those leaving a source n
\* sum, up to the rounding of the float operations, to the share of n's
\* outflow sum in the greater of its outflow and inflow sums
PercentagesNearShare(g) ==
    /\ \A k \in DOMAIN g.pct : RPos(g.pct[k]) /\ ~RLess(RInt(100), g.pct[k])
    /\ \A n \in Sources(input) :
          Near(OutPercent(g, n),
               Percent(OutSum(input, n), GreaterOf(OutSum(input, n), InSum(input, n))))

\* C26 (amended): when every record value is > 0, every edge percentage lies
\* in (0, 100], and the percentages of the edges leaving a node sum to
\* outflow / max(outflow, inflow) * 100 up to the rounding of the float
\* operations: to at most 100, and to exactly 100 if and only if the outflow
\* sum is at least the inflow sum, in exact arithmetic only.
C26_PercentagesNearShare ==
    (pc = "compared" /\ \A k \in DOMAIN input.rows : RPos(input.rows[k].value))
    => IF arith = "exact"
       THEN PercentagesBounded(data) /\ PercentagesBounded(data2)
       ELSE PercentagesNearShare(data) /\ PercentagesNearShare(data2)

\* Total Revenue passes 1 to DRAM and 2 to Mobile and receives nothing: in
\* float arithmetic its two percentages sum to less than 100
C26_Witness ==
    /\ pc = "compared" /\ arith = "float"
    /\ Len(input.rows) = 2
    /\ Column(input.rows, "source") = <<"Total Revenue", "Total Revenue">>
    /\ Column(input.rows, "value") = <<RInt(1), RInt(2)>>
    /\ InSum(input, "Total Revenue") = RZero
    /\ RLess(OutPercent(data, "Total Revenue"), RInt(100))
    /\ RLess(OutPercent(data2, "Total Revenue"), RInt(100))
    /\ Near(OutPercent(data, "Total Revenue"), RInt(100))

Divisors(t) ==
    IF HasRoot(t)
    THEN {Candidates[i] : i \in {i \in DOMAIN Candidates :
                                    /\ OutSum(t, Candidates[i]) # RZero
                                    /\ \A j \in 1..(i - 1) : OutSum(t, Candidates[j]) = RZero}}
    ELSE {s \in Sources(t) : OutSum(t, s) = LargestOutSum(t)}

\* C28 (as claimed): after normalization with positive record values the
\* outflow sum of the node used as divisor is exactly 100, and normalizing the
\* normalized values again returns the same values.
C28_DivisorOutflowExactly100 ==
    (pc = "prepared" /\ normalize /\ input.rows # <<>>) =>
        /\ \A n \in Divisors(input) : OutSum(GraphRecords, n) = RInt(100)
        /\ runs >= 2 =>
              \A k \in DOMAIN input.rows : data.value[k] = input.rows[k].value

\* C28 (amended): after normalization with positive record values the outflow
\* sum of the node used as divisor is 100 up to the rounding of the float
\* operations, and normalizing the normalized values again returns the same
\* values up to that rounding; both are exact in exact arithmetic.
C28_DivisorOutflowNear100 ==
    (pc = "prepared" /\ normalize /\ input.rows # <<>>) =>
        /\ \A n \in Divisors(input) :
              IF arith = "exact" THEN OutSum(GraphRecords, n) = RInt(100)
              ELSE Near(OutSum(GraphRecords, n), RInt(100))
        /\ runs >= 2 =>
              \A k \in DOMAIN input.rows :
                  IF arith = "exact" THEN data.value[k] = input.rows[k].value
                  ELSE Near(data.value[k], input.rows[k].value)

\* Total Revenue passes 1 to DRAM and 2 to Mobile: in float arithmetic the two
\* normalized values sum to less than 100, before and after a second
\* normalization
C28_Witness ==
    /\ pc = "prepared" /\ normalize /\ arith = "float" /\ runs = 2
    /\ Column(df.rows, "source") = <<"Total Revenue", "Total Revenue">>
    /\ Column(df.rows, "value") = <<RInt(1), RInt(2)>>
    /\ RLess(OutSum(input, "Total Revenue"), RInt(100))
    /\ RLess(OutSum(GraphRecords, "Total Revenue"), RInt(100))
    /\ Near(OutSum(GraphRecords, "Total Revenue"), RInt(100))

\* the categories of the summary table in the order of the two lists
FixedOrder ==
    <<"DRAM", "NAND", "Emerging", "Other", "AI/Datacenter", "Mobile", "Enterprise", "PC",
      "Automotive", "Industrial">>

Position(c) == CHOOSE k \in DOMAIN FixedOrder : FixedOrder[k] = c

\* C29: the rows of the table create_summary_table returns stand in the fixed
\* order DRAM, NAND, Emerging, Other, AI/Datacenter, Mobile, Enterprise, PC,
\* Automotive, Industrial, omitted categories skipped, each category at most
\* once, and a node label outside these lists has no row.
C29_RowsInFixedOrder ==
    (pc = "done" /\ script = "create_summary_table" /\ ~summary.isNone) =>
        /\ \A i \in DOMAIN summary.rows :
              summary.rows[i]["Segment"] \in Range(FixedOrder)
        /\ \A i, j \in DOMAIN summary.rows :
              i < j => Position(summary.rows[i]["Segment"])
                         < Position(summary.rows[j]["Segment"])

\* the first file names PC before NAND, the second Consumer and NAND: the
\* table holds NAND, then PC
C29_Witness ==
    /\ pc = "done" /\ script = "create_summary_table" /\ ~summary.isNone
    /\ Column(df.rows, "target") = <<"PC", "NAND">>
    /\ Column(df2.rows, "target") = <<"Consumer", "NAND">>
    /\ Len(summary.rows) = 2
    /\ summary.rows[1]["Segment"] = "NAND"
    /\ summary.rows[2]["Segment"] = "PC"

\* the lower-cased title and summary of an article, '' for a missing key
TitleOf(a) == str_lower(IF "title" \in DOMAIN a THEN a.title ELSE <<>>)
SummaryOf(a) == str_lower(IF "summary" \in DOMAIN a THEN a.summary ELSE <<>>)

\* keyword k occurs in the lower-cased title or in the lower-cased summary
InTitleOrSummary(k, a) == str_in(k, TitleOf(a)) \/ str_in(k, SummaryOf(a))

\* keyword k occurs in the lower-cased title and summary joined by a space
InJoinedText(k, a) == str_in(k, TitleOf(a) \o <<" ">> \o SummaryOf(a))

\* keyword k occurs in article a: in its joined text, or in one of its fields
Occurs(joined, k, a) == IF joined THEN InJoinedText(k, a) ELSE InTitleOrSummary(k, a)

\* the entries of category_keywords a keyword of which occurs in article a
Hits(joined, a) ==
    {j \in DOMAIN category_keywords :
        \E k \in DOMAIN category_keywords[j].keywords :
            Occurs(joined, category_keywords[j].keywords[k], a)}

\* the category of the first of the entries hits, "other" when there is none
FirstOf(hits) ==
    IF hits = {} THEN "other"
    ELSE category_keywords[CHOOSE j \in hits : \A h \in hits : j <= h].category

\* the first category in declaration order a keyword of which occurs in each
\* of the articles from article i on
RECURSIVE FirstCategories(_, _)
FirstCategories(joined, i) ==
    IF i > Len(articles) THEN <<>>
    ELSE <<FirstOf(Hits(joined, articles[i]))>> \o FirstCategories(joined, i + 1)

\* the articles whose category in cats is c, in input order
ArticlesOf(cats, c) ==
    LET places == SelectSeq([i \in DOMAIN articles |-> i], LAMBDA i : cats[i] = c)
    IN  [k \in DOMAIN places |-> articles[places[k]]]

RECURSIVE SizesFrom(_)
SizesFrom(i) ==
    IF i > Len(category_names) THEN 0
    ELSE Len(categorized[category_names[i]]) + SizesFrom(i + 1)

\* every category list holds the articles of that category (cats[i] that of
\* article i) in input order, and the sizes of the lists sum to the number of
\* articles
PartitionedBy(cats) ==
    /\ DOMAIN categorized = Range(category_names)
    /\ \A c \in Range(category_names) : categorized[c] = ArticlesOf(cats, c)
    /\ SizesFrom(1) = Len(articles)

\* C30 (as claimed): categorize_news places every article in exactly one
\* category list, that of the first category in declaration order one of whose
\* keywords occurs in the lower-cased title or summary, else "other"; the sizes
\* of the lists sum to the number of articles, which keep their input order in
\* each list.
C30_PartitionByTitleOrSummary ==
    pc = "categorized" => PartitionedBy(FirstCategories(FALSE, 1))

\* C30 (amended): the same with the keywords looked for in one text, the
\* lower-cased title and the lower-cased summary joined by a space, in which a
\* keyword of two words can begin in the title and end in the summary.
C30_PartitionByJoinedText ==
    pc = "categorized" => PartitionedBy(FirstCategories(TRUE, 1))

\* "Something New" / "Product line grows" holds "new product" across the two
\* fields only; with "Micron Announces HBM3E" / "Revenue up" after it, both
\* stand under product_launches in input order
C30_Witness ==
    /\ pc = "categorized"
    /\ articles =
          <<[title |-> <<"S", "o", "m", "e", "t", "h", "i", "n", "g", " ", "N", "e", "w">>,
             summary |-> <<"P", "r", "o", "d", "u", "c", "t", " ", "l", "i", "n", "e", " ", "g", "r", "o", "w", "s">>],
            [title |-> <<"M", "i", "c", "r", "o", "n", " ", "A", "n", "n", "o", "u", "n", "c", "e", "s", " ", "H", "B", "M", "3", "E">>,
             summary |-> <<"R", "e", "v", "e", "n", "u", "e", " ", "u", "p">>]>>
    /\ categorized["product_launches"] = articles
    /\ categorized["financial"] = <<>> /\ categorized["other"] = <<>>
    /\ FirstCategories(FALSE, 1)[1] = "other"

====
